---- MODULE Spec2Model ----
(***************************************************************************)
(* Spanish identity number (NIF / NIE / CIF) and bank account (CCC)        *)
(* validation of localflavor.es: the validator of validators.py and the    *)
(* form fields of forms.py.                                                *)
(*                                                                         *)
(* A Python string is a sequence of one-character strings; the empty       *)
(* Python string '' is the empty sequence << >>.  A single optional        *)
(* character (a regex group that matched nothing) is "" when absent.       *)
(*                                                                         *)
(* A printable ASCII character is written as itself, newline, tab,         *)
(* carriage return and form feed as "\n", "\t", "\r" and "\f", and every   *)
(* other character by its code point: "U+00DF" is the one character        *)
(* LATIN SMALL LETTER SHARP S, "U+0663" is ARABIC-INDIC DIGIT THREE.       *)
(* Strings are Python 3 str: \d, int() and str.upper() follow Unicode      *)
(* (tables below: Unicode 14.0.0).                                         *)
(***************************************************************************)
EXTENDS Integers, Sequences, FiniteSets, TLC

VARIABLES
    pc,        \* "start", then the operation that ran
    only_nif,  \* the only_nif argument of the validator or field
    required,  \* the form field's required argument
    strip,     \* the form field's strip argument (CharField, Django >= 1.9)
    base,      \* the identity number before separators and case are varied
    value,     \* the string handed to the operation
    edits,     \* how many separators and case changes were applied to base
    lowered,   \* the letters of base that were replaced by their lower case
    result,    \* [status, ret]: "ok" or the error, and the returned string
    checksum   \* the integer cif_get_checksum returned, -1 before

vars ==
    <<pc, only_nif, required, strip, base, value, edits, lowered, result, checksum>>

(***************************************************************************)
(* Characters and Python string primitives                                 *)
(***************************************************************************)
\* the digits str() writes
DigitChars == <<"0", "1", "2", "3", "4", "5", "6", "7", "8", "9">>

\* the decimal digits of Unicode (category Nd), one row of 0..9 per script
DigitRows ==
    <<
      <<"0", "1", "2", "3", "4", "5", "6", "7", "8", "9">>,
      <<"U+0660", "U+0661", "U+0662", "U+0663", "U+0664", "U+0665", "U+0666", "U+0667", "U+0668", "U+0669">>,
      <<"U+06F0", "U+06F1", "U+06F2", "U+06F3", "U+06F4", "U+06F5", "U+06F6", "U+06F7", "U+06F8", "U+06F9">>,
      <<"U+07C0", "U+07C1", "U+07C2", "U+07C3", "U+07C4", "U+07C5", "U+07C6", "U+07C7", "U+07C8", "U+07C9">>,
      <<"U+0966", "U+0967", "U+0968", "U+0969", "U+096A", "U+096B", "U+096C", "U+096D", "U+096E", "U+096F">>,
      <<"U+09E6", "U+09E7", "U+09E8", "U+09E9", "U+09EA", "U+09EB", "U+09EC", "U+09ED", "U+09EE", "U+09EF">>,
      <<"U+0A66", "U+0A67", "U+0A68", "U+0A69", "U+0A6A", "U+0A6B", "U+0A6C", "U+0A6D", "U+0A6E", "U+0A6F">>,
      <<"U+0AE6", "U+0AE7", "U+0AE8", "U+0AE9", "U+0AEA", "U+0AEB", "U+0AEC", "U+0AED", "U+0AEE", "U+0AEF">>,
      <<"U+0B66", "U+0B67", "U+0B68", "U+0B69", "U+0B6A", "U+0B6B", "U+0B6C", "U+0B6D", "U+0B6E", "U+0B6F">>,
      <<"U+0BE6", "U+0BE7", "U+0BE8", "U+0BE9", "U+0BEA", "U+0BEB", "U+0BEC", "U+0BED", "U+0BEE", "U+0BEF">>,
      <<"U+0C66", "U+0C67", "U+0C68", "U+0C69", "U+0C6A", "U+0C6B", "U+0C6C", "U+0C6D", "U+0C6E", "U+0C6F">>,
      <<"U+0CE6", "U+0CE7", "U+0CE8", "U+0CE9", "U+0CEA", "U+0CEB", "U+0CEC", "U+0CED", "U+0CEE", "U+0CEF">>,
      <<"U+0D66", "U+0D67", "U+0D68", "U+0D69", "U+0D6A", "U+0D6B", "U+0D6C", "U+0D6D", "U+0D6E", "U+0D6F">>,
      <<"U+0DE6", "U+0DE7", "U+0DE8", "U+0DE9", "U+0DEA", "U+0DEB", "U+0DEC", "U+0DED", "U+0DEE", "U+0DEF">>,
      <<"U+0E50", "U+0E51", "U+0E52", "U+0E53", "U+0E54", "U+0E55", "U+0E56", "U+0E57", "U+0E58", "U+0E59">>,
      <<"U+0ED0", "U+0ED1", "U+0ED2", "U+0ED3", "U+0ED4", "U+0ED5", "U+0ED6", "U+0ED7", "U+0ED8", "U+0ED9">>,
      <<"U+0F20", "U+0F21", "U+0F22", "U+0F23", "U+0F24", "U+0F25", "U+0F26", "U+0F27", "U+0F28", "U+0F29">>,
      <<"U+1040", "U+1041", "U+1042", "U+1043", "U+1044", "U+1045", "U+1046", "U+1047", "U+1048", "U+1049">>,
      <<"U+1090", "U+1091", "U+1092", "U+1093", "U+1094", "U+1095", "U+1096", "U+1097", "U+1098", "U+1099">>,
      <<"U+17E0", "U+17E1", "U+17E2", "U+17E3", "U+17E4", "U+17E5", "U+17E6", "U+17E7", "U+17E8", "U+17E9">>,
      <<"U+1810", "U+1811", "U+1812", "U+1813", "U+1814", "U+1815", "U+1816", "U+1817", "U+1818", "U+1819">>,
      <<"U+1946", "U+1947", "U+1948", "U+1949", "U+194A", "U+194B", "U+194C", "U+194D", "U+194E", "U+194F">>,
      <<"U+19D0", "U+19D1", "U+19D2", "U+19D3", "U+19D4", "U+19D5", "U+19D6", "U+19D7", "U+19D8", "U+19D9">>,
      <<"U+1A80", "U+1A81", "U+1A82", "U+1A83", "U+1A84", "U+1A85", "U+1A86", "U+1A87", "U+1A88", "U+1A89">>,
      <<"U+1A90", "U+1A91", "U+1A92", "U+1A93", "U+1A94", "U+1A95", "U+1A96", "U+1A97", "U+1A98", "U+1A99">>,
      <<"U+1B50", "U+1B51", "U+1B52", "U+1B53", "U+1B54", "U+1B55", "U+1B56", "U+1B57", "U+1B58", "U+1B59">>,
      <<"U+1BB0", "U+1BB1", "U+1BB2", "U+1BB3", "U+1BB4", "U+1BB5", "U+1BB6", "U+1BB7", "U+1BB8", "U+1BB9">>,
      <<"U+1C40", "U+1C41", "U+1C42", "U+1C43", "U+1C44", "U+1C45", "U+1C46", "U+1C47", "U+1C48", "U+1C49">>,
      <<"U+1C50", "U+1C51", "U+1C52", "U+1C53", "U+1C54", "U+1C55", "U+1C56", "U+1C57", "U+1C58", "U+1C59">>,
      <<"U+A620", "U+A621", "U+A622", "U+A623", "U+A624", "U+A625", "U+A626", "U+A627", "U+A628", "U+A629">>,
      <<"U+A8D0", "U+A8D1", "U+A8D2", "U+A8D3", "U+A8D4", "U+A8D5", "U+A8D6", "U+A8D7", "U+A8D8", "U+A8D9">>,
      <<"U+A900", "U+A901", "U+A902", "U+A903", "U+A904", "U+A905", "U+A906", "U+A907", "U+A908", "U+A909">>,
      <<"U+A9D0", "U+A9D1", "U+A9D2", "U+A9D3", "U+A9D4", "U+A9D5", "U+A9D6", "U+A9D7", "U+A9D8", "U+A9D9">>,
      <<"U+A9F0", "U+A9F1", "U+A9F2", "U+A9F3", "U+A9F4", "U+A9F5", "U+A9F6", "U+A9F7", "U+A9F8", "U+A9F9">>,
      <<"U+AA50", "U+AA51", "U+AA52", "U+AA53", "U+AA54", "U+AA55", "U+AA56", "U+AA57", "U+AA58", "U+AA59">>,
      <<"U+ABF0", "U+ABF1", "U+ABF2", "U+ABF3", "U+ABF4", "U+ABF5", "U+ABF6", "U+ABF7", "U+ABF8", "U+ABF9">>,
      <<"U+FF10", "U+FF11", "U+FF12", "U+FF13", "U+FF14", "U+FF15", "U+FF16", "U+FF17", "U+FF18", "U+FF19">>,
      <<"U+104A0", "U+104A1", "U+104A2", "U+104A3", "U+104A4", "U+104A5", "U+104A6", "U+104A7", "U+104A8", "U+104A9">>,
      <<"U+10D30", "U+10D31", "U+10D32", "U+10D33", "U+10D34", "U+10D35", "U+10D36", "U+10D37", "U+10D38", "U+10D39">>,
      <<"U+11066", "U+11067", "U+11068", "U+11069", "U+1106A", "U+1106B", "U+1106C", "U+1106D", "U+1106E", "U+1106F">>,
      <<"U+110F0", "U+110F1", "U+110F2", "U+110F3", "U+110F4", "U+110F5", "U+110F6", "U+110F7", "U+110F8", "U+110F9">>,
      <<"U+11136", "U+11137", "U+11138", "U+11139", "U+1113A", "U+1113B", "U+1113C", "U+1113D", "U+1113E", "U+1113F">>,
      <<"U+111D0", "U+111D1", "U+111D2", "U+111D3", "U+111D4", "U+111D5", "U+111D6", "U+111D7", "U+111D8", "U+111D9">>,
      <<"U+112F0", "U+112F1", "U+112F2", "U+112F3", "U+112F4", "U+112F5", "U+112F6", "U+112F7", "U+112F8", "U+112F9">>,
      <<"U+11450", "U+11451", "U+11452", "U+11453", "U+11454", "U+11455", "U+11456", "U+11457", "U+11458", "U+11459">>,
      <<"U+114D0", "U+114D1", "U+114D2", "U+114D3", "U+114D4", "U+114D5", "U+114D6", "U+114D7", "U+114D8", "U+114D9">>,
      <<"U+11650", "U+11651", "U+11652", "U+11653", "U+11654", "U+11655", "U+11656", "U+11657", "U+11658", "U+11659">>,
      <<"U+116C0", "U+116C1", "U+116C2", "U+116C3", "U+116C4", "U+116C5", "U+116C6", "U+116C7", "U+116C8", "U+116C9">>,
      <<"U+11730", "U+11731", "U+11732", "U+11733", "U+11734", "U+11735", "U+11736", "U+11737", "U+11738", "U+11739">>,
      <<"U+118E0", "U+118E1", "U+118E2", "U+118E3", "U+118E4", "U+118E5", "U+118E6", "U+118E7", "U+118E8", "U+118E9">>,
      <<"U+11950", "U+11951", "U+11952", "U+11953", "U+11954", "U+11955", "U+11956", "U+11957", "U+11958", "U+11959">>,
      <<"U+11C50", "U+11C51", "U+11C52", "U+11C53", "U+11C54", "U+11C55", "U+11C56", "U+11C57", "U+11C58", "U+11C59">>,
      <<"U+11D50", "U+11D51", "U+11D52", "U+11D53", "U+11D54", "U+11D55", "U+11D56", "U+11D57", "U+11D58", "U+11D59">>,
      <<"U+11DA0", "U+11DA1", "U+11DA2", "U+11DA3", "U+11DA4", "U+11DA5", "U+11DA6", "U+11DA7", "U+11DA8", "U+11DA9">>,
      <<"U+16A60", "U+16A61", "U+16A62", "U+16A63", "U+16A64", "U+16A65", "U+16A66", "U+16A67", "U+16A68", "U+16A69">>,
      <<"U+16AC0", "U+16AC1", "U+16AC2", "U+16AC3", "U+16AC4", "U+16AC5", "U+16AC6", "U+16AC7", "U+16AC8", "U+16AC9">>,
      <<"U+16B50", "U+16B51", "U+16B52", "U+16B53", "U+16B54", "U+16B55", "U+16B56", "U+16B57", "U+16B58", "U+16B59">>,
      <<"U+1D7CE", "U+1D7CF", "U+1D7D0", "U+1D7D1", "U+1D7D2", "U+1D7D3", "U+1D7D4", "U+1D7D5", "U+1D7D6", "U+1D7D7">>,
      <<"U+1D7D8", "U+1D7D9", "U+1D7DA", "U+1D7DB", "U+1D7DC", "U+1D7DD", "U+1D7DE", "U+1D7DF", "U+1D7E0", "U+1D7E1">>,
      <<"U+1D7E2", "U+1D7E3", "U+1D7E4", "U+1D7E5", "U+1D7E6", "U+1D7E7", "U+1D7E8", "U+1D7E9", "U+1D7EA", "U+1D7EB">>,
      <<"U+1D7EC", "U+1D7ED", "U+1D7EE", "U+1D7EF", "U+1D7F0", "U+1D7F1", "U+1D7F2", "U+1D7F3", "U+1D7F4", "U+1D7F5">>,
      <<"U+1D7F6", "U+1D7F7", "U+1D7F8", "U+1D7F9", "U+1D7FA", "U+1D7FB", "U+1D7FC", "U+1D7FD", "U+1D7FE", "U+1D7FF">>,
      <<"U+1E140", "U+1E141", "U+1E142", "U+1E143", "U+1E144", "U+1E145", "U+1E146", "U+1E147", "U+1E148", "U+1E149">>,
      <<"U+1E2F0", "U+1E2F1", "U+1E2F2", "U+1E2F3", "U+1E2F4", "U+1E2F5", "U+1E2F6", "U+1E2F7", "U+1E2F8", "U+1E2F9">>,
      <<"U+1E950", "U+1E951", "U+1E952", "U+1E953", "U+1E954", "U+1E955", "U+1E956", "U+1E957", "U+1E958", "U+1E959">>,
      <<"U+1FBF0", "U+1FBF1", "U+1FBF2", "U+1FBF3", "U+1FBF4", "U+1FBF5", "U+1FBF6", "U+1FBF7", "U+1FBF8", "U+1FBF9">>
    >>

\* the characters c with c.upper() # c
UpperFrom ==
    <<
      "a", "b", "c", "d", "e", "f", "g", "h", "i", "j", "k", "l", "m", "n",
      "o", "p", "q", "r", "s", "t", "u", "v", "w", "x", "y", "z", "U+00B5",
      "U+00DF", "U+00E0", "U+00E1", "U+00E2", "U+00E3", "U+00E4", "U+00E5",
      "U+00E6", "U+00E7", "U+00E8", "U+00E9", "U+00EA", "U+00EB", "U+00EC",
      "U+00ED", "U+00EE", "U+00EF", "U+00F0", "U+00F1", "U+00F2", "U+00F3",
      "U+00F4", "U+00F5", "U+00F6", "U+00F8", "U+00F9", "U+00FA", "U+00FB",
      "U+00FC", "U+00FD", "U+00FE", "U+00FF", "U+0101", "U+0103", "U+0105",
      "U+0107", "U+0109", "U+010B", "U+010D", "U+010F", "U+0111", "U+0113",
      "U+0115", "U+0117", "U+0119", "U+011B", "U+011D", "U+011F", "U+0121",
      "U+0123", "U+0125", "U+0127", "U+0129", "U+012B", "U+012D", "U+012F",
      "U+0131", "U+0133", "U+0135", "U+0137", "U+013A", "U+013C", "U+013E",
      "U+0140", "U+0142", "U+0144", "U+0146", "U+0148", "U+0149", "U+014B",
      "U+014D", "U+014F", "U+0151", "U+0153", "U+0155", "U+0157", "U+0159",
      "U+015B", "U+015D", "U+015F", "U+0161", "U+0163", "U+0165", "U+0167",
      "U+0169", "U+016B", "U+016D", "U+016F", "U+0171", "U+0173", "U+0175",
      "U+0177", "U+017A", "U+017C", "U+017E", "U+017F", "U+0180", "U+0183",
      "U+0185", "U+0188", "U+018C", "U+0192", "U+0195", "U+0199", "U+019A",
      "U+019E", "U+01A1", "U+01A3", "U+01A5", "U+01A8", "U+01AD", "U+01B0",
      "U+01B4", "U+01B6", "U+01B9", "U+01BD", "U+01BF", "U+01C5", "U+01C6",
      "U+01C8", "U+01C9", "U+01CB", "U+01CC", "U+01CE", "U+01D0", "U+01D2",
      "U+01D4", "U+01D6", "U+01D8", "U+01DA", "U+01DC", "U+01DD", "U+01DF",
      "U+01E1", "U+01E3", "U+01E5", "U+01E7", "U+01E9", "U+01EB", "U+01ED",
      "U+01EF", "U+01F0", "U+01F2", "U+01F3", "U+01F5", "U+01F9", "U+01FB",
      "U+01FD", "U+01FF", "U+0201", "U+0203", "U+0205", "U+0207", "U+0209",
      "U+020B", "U+020D", "U+020F", "U+0211", "U+0213", "U+0215", "U+0217",
      "U+0219", "U+021B", "U+021D", "U+021F", "U+0223", "U+0225", "U+0227",
      "U+0229", "U+022B", "U+022D", "U+022F", "U+0231", "U+0233", "U+023C",
      "U+023F", "U+0240", "U+0242", "U+0247", "U+0249", "U+024B", "U+024D",
      "U+024F", "U+0250", "U+0251", "U+0252", "U+0253", "U+0254", "U+0256",
      "U+0257", "U+0259", "U+025B", "U+025C", "U+0260", "U+0261", "U+0263",
      "U+0265", "U+0266", "U+0268", "U+0269", "U+026A", "U+026B", "U+026C",
      "U+026F", "U+0271", "U+0272", "U+0275", "U+027D", "U+0280", "U+0282",
      "U+0283", "U+0287", "U+0288", "U+0289", "U+028A", "U+028B", "U+028C",
      "U+0292", "U+029D", "U+029E", "U+0345", "U+0371", "U+0373", "U+0377",
      "U+037B", "U+037C", "U+037D", "U+0390", "U+03AC", "U+03AD", "U+03AE",
      "U+03AF", "U+03B0", "U+03B1", "U+03B2", "U+03B3", "U+03B4", "U+03B5",
      "U+03B6", "U+03B7", "U+03B8", "U+03B9", "U+03BA", "U+03BB", "U+03BC",
      "U+03BD", "U+03BE", "U+03BF", "U+03C0", "U+03C1", "U+03C2", "U+03C3",
      "U+03C4", "U+03C5", "U+03C6", "U+03C7", "U+03C8", "U+03C9", "U+03CA",
      "U+03CB", "U+03CC", "U+03CD", "U+03CE", "U+03D0", "U+03D1", "U+03D5",
      "U+03D6", "U+03D7", "U+03D9", "U+03DB", "U+03DD", "U+03DF", "U+03E1",
      "U+03E3", "U+03E5", "U+03E7", "U+03E9", "U+03EB", "U+03ED", "U+03EF",
      "U+03F0", "U+03F1", "U+03F2", "U+03F3", "U+03F5", "U+03F8", "U+03FB",
      "U+0430", "U+0431", "U+0432", "U+0433", "U+0434", "U+0435", "U+0436",
      "U+0437", "U+0438", "U+0439", "U+043A", "U+043B", "U+043C", "U+043D",
      "U+043E", "U+043F", "U+0440", "U+0441", "U+0442", "U+0443", "U+0444",
      "U+0445", "U+0446", "U+0447", "U+0448", "U+0449", "U+044A", "U+044B",
      "U+044C", "U+044D", "U+044E", "U+044F", "U+0450", "U+0451", "U+0452",
      "U+0453", "U+0454", "U+0455", "U+0456", "U+0457", "U+0458", "U+0459",
      "U+045A", "U+045B", "U+045C", "U+045D", "U+045E", "U+045F", "U+0461",
      "U+0463", "U+0465", "U+0467", "U+0469", "U+046B", "U+046D", "U+046F",
      "U+0471", "U+0473", "U+0475", "U+0477", "U+0479", "U+047B", "U+047D",
      "U+047F", "U+0481", "U+048B", "U+048D", "U+048F", "U+0491", "U+0493",
      "U+0495", "U+0497", "U+0499", "U+049B", "U+049D", "U+049F", "U+04A1",
      "U+04A3", "U+04A5", "U+04A7", "U+04A9", "U+04AB", "U+04AD", "U+04AF",
      "U+04B1", "U+04B3", "U+04B5", "U+04B7", "U+04B9", "U+04BB", "U+04BD",
      "U+04BF", "U+04C2", "U+04C4", "U+04C6", "U+04C8", "U+04CA", "U+04CC",
      "U+04CE", "U+04CF", "U+04D1", "U+04D3", "U+04D5", "U+04D7", "U+04D9",
      "U+04DB", "U+04DD", "U+04DF", "U+04E1", "U+04E3", "U+04E5", "U+04E7",
      "U+04E9", "U+04EB", "U+04ED", "U+04EF", "U+04F1", "U+04F3", "U+04F5",
      "U+04F7", "U+04F9", "U+04FB", "U+04FD", "U+04FF", "U+0501", "U+0503",
      "U+0505", "U+0507", "U+0509", "U+050B", "U+050D", "U+050F", "U+0511",
      "U+0513", "U+0515", "U+0517", "U+0519", "U+051B", "U+051D", "U+051F",
      "U+0521", "U+0523", "U+0525", "U+0527", "U+0529", "U+052B", "U+052D",
      "U+052F", "U+0561", "U+0562", "U+0563", "U+0564", "U+0565", "U+0566",
      "U+0567", "U+0568", "U+0569", "U+056A", "U+056B", "U+056C", "U+056D",
      "U+056E", "U+056F", "U+0570", "U+0571", "U+0572", "U+0573", "U+0574",
      "U+0575", "U+0576", "U+0577", "U+0578", "U+0579", "U+057A", "U+057B",
      "U+057C", "U+057D", "U+057E", "U+057F", "U+0580", "U+0581", "U+0582",
      "U+0583", "U+0584", "U+0585", "U+0586", "U+0587", "U+10D0", "U+10D1",
      "U+10D2", "U+10D3", "U+10D4", "U+10D5", "U+10D6", "U+10D7", "U+10D8",
      "U+10D9", "U+10DA", "U+10DB", "U+10DC", "U+10DD", "U+10DE", "U+10DF",
      "U+10E0", "U+10E1", "U+10E2", "U+10E3", "U+10E4", "U+10E5", "U+10E6",
      "U+10E7", "U+10E8", "U+10E9", "U+10EA", "U+10EB", "U+10EC", "U+10ED",
      "U+10EE", "U+10EF", "U+10F0", "U+10F1", "U+10F2", "U+10F3", "U+10F4",
      "U+10F5", "U+10F6", "U+10F7", "U+10F8", "U+10F9", "U+10FA", "U+10FD",
      "U+10FE", "U+10FF", "U+13F8", "U+13F9", "U+13FA", "U+13FB", "U+13FC",
      "U+13FD", "U+1C80", "U+1C81", "U+1C82", "U+1C83", "U+1C84", "U+1C85",
      "U+1C86", "U+1C87", "U+1C88", "U+1D79", "U+1D7D", "U+1D8E", "U+1E01",
      "U+1E03", "U+1E05", "U+1E07", "U+1E09", "U+1E0B", "U+1E0D", "U+1E0F",
      "U+1E11", "U+1E13", "U+1E15", "U+1E17", "U+1E19", "U+1E1B", "U+1E1D",
      "U+1E1F", "U+1E21", "U+1E23", "U+1E25", "U+1E27", "U+1E29", "U+1E2B",
      "U+1E2D", "U+1E2F", "U+1E31", "U+1E33", "U+1E35", "U+1E37", "U+1E39",
      "U+1E3B", "U+1E3D", "U+1E3F", "U+1E41", "U+1E43", "U+1E45", "U+1E47",
      "U+1E49", "U+1E4B", "U+1E4D", "U+1E4F", "U+1E51", "U+1E53", "U+1E55",
      "U+1E57", "U+1E59", "U+1E5B", "U+1E5D", "U+1E5F", "U+1E61", "U+1E63",
      "U+1E65", "U+1E67", "U+1E69", "U+1E6B", "U+1E6D", "U+1E6F", "U+1E71",
      "U+1E73", "U+1E75", "U+1E77", "U+1E79", "U+1E7B", "U+1E7D", "U+1E7F",
      "U+1E81", "U+1E83", "U+1E85", "U+1E87", "U+1E89", "U+1E8B", "U+1E8D",
      "U+1E8F", "U+1E91", "U+1E93", "U+1E95", "U+1E96", "U+1E97", "U+1E98",
      "U+1E99", "U+1E9A", "U+1E9B", "U+1EA1", "U+1EA3", "U+1EA5", "U+1EA7",
      "U+1EA9", "U+1EAB", "U+1EAD", "U+1EAF", "U+1EB1", "U+1EB3", "U+1EB5",
      "U+1EB7", "U+1EB9", "U+1EBB", "U+1EBD", "U+1EBF", "U+1EC1", "U+1EC3",
      "U+1EC5", "U+1EC7", "U+1EC9", "U+1ECB", "U+1ECD", "U+1ECF", "U+1ED1",
      "U+1ED3", "U+1ED5", "U+1ED7", "U+1ED9", "U+1EDB", "U+1EDD", "U+1EDF",
      "U+1EE1", "U+1EE3", "U+1EE5", "U+1EE7", "U+1EE9", "U+1EEB", "U+1EED",
      "U+1EEF", "U+1EF1", "U+1EF3", "U+1EF5", "U+1EF7", "U+1EF9", "U+1EFB",
      "U+1EFD", "U+1EFF", "U+1F00", "U+1F01", "U+1F02", "U+1F03", "U+1F04",
      "U+1F05", "U+1F06", "U+1F07", "U+1F10", "U+1F11", "U+1F12", "U+1F13",
      "U+1F14", "U+1F15", "U+1F20", "U+1F21", "U+1F22", "U+1F23", "U+1F24",
      "U+1F25", "U+1F26", "U+1F27", "U+1F30", "U+1F31", "U+1F32", "U+1F33",
      "U+1F34", "U+1F35", "U+1F36", "U+1F37", "U+1F40", "U+1F41", "U+1F42",
      "U+1F43", "U+1F44", "U+1F45", "U+1F50", "U+1F51", "U+1F52", "U+1F53",
      "U+1F54", "U+1F55", "U+1F56", "U+1F57", "U+1F60", "U+1F61", "U+1F62",
      "U+1F63", "U+1F64", "U+1F65", "U+1F66", "U+1F67", "U+1F70", "U+1F71",
      "U+1F72", "U+1F73", "U+1F74", "U+1F75", "U+1F76", "U+1F77", "U+1F78",
      "U+1F79", "U+1F7A", "U+1F7B", "U+1F7C", "U+1F7D", "U+1F80", "U+1F81",
      "U+1F82", "U+1F83", "U+1F84", "U+1F85", "U+1F86", "U+1F87", "U+1F88",
      "U+1F89", "U+1F8A", "U+1F8B", "U+1F8C", "U+1F8D", "U+1F8E", "U+1F8F",
      "U+1F90", "U+1F91", "U+1F92", "U+1F93", "U+1F94", "U+1F95", "U+1F96",
      "U+1F97", "U+1F98", "U+1F99", "U+1F9A", "U+1F9B", "U+1F9C", "U+1F9D",
      "U+1F9E", "U+1F9F", "U+1FA0", "U+1FA1", "U+1FA2", "U+1FA3", "U+1FA4",
      "U+1FA5", "U+1FA6", "U+1FA7", "U+1FA8", "U+1FA9", "U+1FAA", "U+1FAB",
      "U+1FAC", "U+1FAD", "U+1FAE", "U+1FAF", "U+1FB0", "U+1FB1", "U+1FB2",
      "U+1FB3", "U+1FB4", "U+1FB6", "U+1FB7", "U+1FBC", "U+1FBE", "U+1FC2",
      "U+1FC3", "U+1FC4", "U+1FC6", "U+1FC7", "U+1FCC", "U+1FD0", "U+1FD1",
      "U+1FD2", "U+1FD3", "U+1FD6", "U+1FD7", "U+1FE0", "U+1FE1", "U+1FE2",
      "U+1FE3", "U+1FE4", "U+1FE5", "U+1FE6", "U+1FE7", "U+1FF2", "U+1FF3",
      "U+1FF4", "U+1FF6", "U+1FF7", "U+1FFC", "U+214E", "U+2170", "U+2171",
      "U+2172", "U+2173", "U+2174", "U+2175", "U+2176", "U+2177", "U+2178",
      "U+2179", "U+217A", "U+217B", "U+217C", "U+217D", "U+217E", "U+217F",
      "U+2184", "U+24D0", "U+24D1", "U+24D2", "U+24D3", "U+24D4", "U+24D5",
      "U+24D6", "U+24D7", "U+24D8", "U+24D9", "U+24DA", "U+24DB", "U+24DC",
      "U+24DD", "U+24DE", "U+24DF", "U+24E0", "U+24E1", "U+24E2", "U+24E3",
      "U+24E4", "U+24E5", "U+24E6", "U+24E7", "U+24E8", "U+24E9", "U+2C30",
      "U+2C31", "U+2C32", "U+2C33", "U+2C34", "U+2C35", "U+2C36", "U+2C37",
      "U+2C38", "U+2C39", "U+2C3A", "U+2C3B", "U+2C3C", "U+2C3D", "U+2C3E",
      "U+2C3F", "U+2C40", "U+2C41", "U+2C42", "U+2C43", "U+2C44", "U+2C45",
      "U+2C46", "U+2C47", "U+2C48", "U+2C49", "U+2C4A", "U+2C4B", "U+2C4C",
      "U+2C4D", "U+2C4E", "U+2C4F", "U+2C50", "U+2C51", "U+2C52", "U+2C53",
      "U+2C54", "U+2C55", "U+2C56", "U+2C57", "U+2C58", "U+2C59", "U+2C5A",
      "U+2C5B", "U+2C5C", "U+2C5D", "U+2C5E", "U+2C5F", "U+2C61", "U+2C65",
      "U+2C66", "U+2C68", "U+2C6A", "U+2C6C", "U+2C73", "U+2C76", "U+2C81",
      "U+2C83", "U+2C85", "U+2C87", "U+2C89", "U+2C8B", "U+2C8D", "U+2C8F",
      "U+2C91", "U+2C93", "U+2C95", "U+2C97", "U+2C99", "U+2C9B", "U+2C9D",
      "U+2C9F", "U+2CA1", "U+2CA3", "U+2CA5", "U+2CA7", "U+2CA9", "U+2CAB",
      "U+2CAD", "U+2CAF", "U+2CB1", "U+2CB3", "U+2CB5", "U+2CB7", "U+2CB9",
      "U+2CBB", "U+2CBD", "U+2CBF", "U+2CC1", "U+2CC3", "U+2CC5", "U+2CC7",
      "U+2CC9", "U+2CCB", "U+2CCD", "U+2CCF", "U+2CD1", "U+2CD3", "U+2CD5",
      "U+2CD7", "U+2CD9", "U+2CDB", "U+2CDD", "U+2CDF", "U+2CE1", "U+2CE3",
      "U+2CEC", "U+2CEE", "U+2CF3", "U+2D00", "U+2D01", "U+2D02", "U+2D03",
      "U+2D04", "U+2D05", "U+2D06", "U+2D07", "U+2D08", "U+2D09", "U+2D0A",
      "U+2D0B", "U+2D0C", "U+2D0D", "U+2D0E", "U+2D0F", "U+2D10", "U+2D11",
      "U+2D12", "U+2D13", "U+2D14", "U+2D15", "U+2D16", "U+2D17", "U+2D18",
      "U+2D19", "U+2D1A", "U+2D1B", "U+2D1C", "U+2D1D", "U+2D1E", "U+2D1F",
      "U+2D20", "U+2D21", "U+2D22", "U+2D23", "U+2D24", "U+2D25", "U+2D27",
      "U+2D2D", "U+A641", "U+A643", "U+A645", "U+A647", "U+A649", "U+A64B",
      "U+A64D", "U+A64F", "U+A651", "U+A653", "U+A655", "U+A657", "U+A659",
      "U+A65B", "U+A65D", "U+A65F", "U+A661", "U+A663", "U+A665", "U+A667",
      "U+A669", "U+A66B", "U+A66D", "U+A681", "U+A683", "U+A685", "U+A687",
      "U+A689", "U+A68B", "U+A68D", "U+A68F", "U+A691", "U+A693", "U+A695",
      "U+A697", "U+A699", "U+A69B", "U+A723", "U+A725", "U+A727", "U+A729",
      "U+A72B", "U+A72D", "U+A72F", "U+A733", "U+A735", "U+A737", "U+A739",
      "U+A73B", "U+A73D", "U+A73F", "U+A741", "U+A743", "U+A745", "U+A747",
      "U+A749", "U+A74B", "U+A74D", "U+A74F", "U+A751", "U+A753", "U+A755",
      "U+A757", "U+A759", "U+A75B", "U+A75D", "U+A75F", "U+A761", "U+A763",
      "U+A765", "U+A767", "U+A769", "U+A76B", "U+A76D", "U+A76F", "U+A77A",
      "U+A77C", "U+A77F", "U+A781", "U+A783", "U+A785", "U+A787", "U+A78C",
      "U+A791", "U+A793", "U+A794", "U+A797", "U+A799", "U+A79B", "U+A79D",
      "U+A79F", "U+A7A1", "U+A7A3", "U+A7A5", "U+A7A7", "U+A7A9", "U+A7B5",
      "U+A7B7", "U+A7B9", "U+A7BB", "U+A7BD", "U+A7BF", "U+A7C1", "U+A7C3",
      "U+A7C8", "U+A7CA", "U+A7D1", "U+A7D7", "U+A7D9", "U+A7F6", "U+AB53",
      "U+AB70", "U+AB71", "U+AB72", "U+AB73", "U+AB74", "U+AB75", "U+AB76",
      "U+AB77", "U+AB78", "U+AB79", "U+AB7A", "U+AB7B", "U+AB7C", "U+AB7D",
      "U+AB7E", "U+AB7F", "U+AB80", "U+AB81", "U+AB82", "U+AB83", "U+AB84",
      "U+AB85", "U+AB86", "U+AB87", "U+AB88", "U+AB89", "U+AB8A", "U+AB8B",
      "U+AB8C", "U+AB8D", "U+AB8E", "U+AB8F", "U+AB90", "U+AB91", "U+AB92",
      "U+AB93", "U+AB94", "U+AB95", "U+AB96", "U+AB97", "U+AB98", "U+AB99",
      "U+AB9A", "U+AB9B", "U+AB9C", "U+AB9D", "U+AB9E", "U+AB9F", "U+ABA0",
      "U+ABA1", "U+ABA2", "U+ABA3", "U+ABA4", "U+ABA5", "U+ABA6", "U+ABA7",
      "U+ABA8", "U+ABA9", "U+ABAA", "U+ABAB", "U+ABAC", "U+ABAD", "U+ABAE",
      "U+ABAF", "U+ABB0", "U+ABB1", "U+ABB2", "U+ABB3", "U+ABB4", "U+ABB5",
      "U+ABB6", "U+ABB7", "U+ABB8", "U+ABB9", "U+ABBA", "U+ABBB", "U+ABBC",
      "U+ABBD", "U+ABBE", "U+ABBF", "U+FB00", "U+FB01", "U+FB02", "U+FB03",
      "U+FB04", "U+FB05", "U+FB06", "U+FB13", "U+FB14", "U+FB15", "U+FB16",
      "U+FB17", "U+FF41", "U+FF42", "U+FF43", "U+FF44", "U+FF45", "U+FF46",
      "U+FF47", "U+FF48", "U+FF49", "U+FF4A", "U+FF4B", "U+FF4C", "U+FF4D",
      "U+FF4E", "U+FF4F", "U+FF50", "U+FF51", "U+FF52", "U+FF53", "U+FF54",
      "U+FF55", "U+FF56", "U+FF57", "U+FF58", "U+FF59", "U+FF5A", "U+10428",
      "U+10429", "U+1042A", "U+1042B", "U+1042C", "U+1042D", "U+1042E",
      "U+1042F", "U+10430", "U+10431", "U+10432", "U+10433", "U+10434",
      "U+10435", "U+10436", "U+10437", "U+10438", "U+10439", "U+1043A",
      "U+1043B", "U+1043C", "U+1043D", "U+1043E", "U+1043F", "U+10440",
      "U+10441", "U+10442", "U+10443", "U+10444", "U+10445", "U+10446",
      "U+10447", "U+10448", "U+10449", "U+1044A", "U+1044B", "U+1044C",
      "U+1044D", "U+1044E", "U+1044F", "U+104D8", "U+104D9", "U+104DA",
      "U+104DB", "U+104DC", "U+104DD", "U+104DE", "U+104DF", "U+104E0",
      "U+104E1", "U+104E2", "U+104E3", "U+104E4", "U+104E5", "U+104E6",
      "U+104E7", "U+104E8", "U+104E9", "U+104EA", "U+104EB", "U+104EC",
      "U+104ED", "U+104EE", "U+104EF", "U+104F0", "U+104F1", "U+104F2",
      "U+104F3", "U+104F4", "U+104F5", "U+104F6", "U+104F7", "U+104F8",
      "U+104F9", "U+104FA", "U+104FB", "U+10597", "U+10598", "U+10599",
      "U+1059A", "U+1059B", "U+1059C", "U+1059D", "U+1059E", "U+1059F",
      "U+105A0", "U+105A1", "U+105A3", "U+105A4", "U+105A5", "U+105A6",
      "U+105A7", "U+105A8", "U+105A9", "U+105AA", "U+105AB", "U+105AC",
      "U+105AD", "U+105AE", "U+105AF", "U+105B0", "U+105B1", "U+105B3",
      "U+105B4", "U+105B5", "U+105B6", "U+105B7", "U+105B8", "U+105B9",
      "U+105BB", "U+105BC", "U+10CC0", "U+10CC1", "U+10CC2", "U+10CC3",
      "U+10CC4", "U+10CC5", "U+10CC6", "U+10CC7", "U+10CC8", "U+10CC9",
      "U+10CCA", "U+10CCB", "U+10CCC", "U+10CCD", "U+10CCE", "U+10CCF",
      "U+10CD0", "U+10CD1", "U+10CD2", "U+10CD3", "U+10CD4", "U+10CD5",
      "U+10CD6", "U+10CD7", "U+10CD8", "U+10CD9", "U+10CDA", "U+10CDB",
      "U+10CDC", "U+10CDD", "U+10CDE", "U+10CDF", "U+10CE0", "U+10CE1",
      "U+10CE2", "U+10CE3", "U+10CE4", "U+10CE5", "U+10CE6", "U+10CE7",
      "U+10CE8", "U+10CE9", "U+10CEA", "U+10CEB", "U+10CEC", "U+10CED",
      "U+10CEE", "U+10CEF", "U+10CF0", "U+10CF1", "U+10CF2", "U+118C0",
      "U+118C1", "U+118C2", "U+118C3", "U+118C4", "U+118C5", "U+118C6",
      "U+118C7", "U+118C8", "U+118C9", "U+118CA", "U+118CB", "U+118CC",
      "U+118CD", "U+118CE", "U+118CF", "U+118D0", "U+118D1", "U+118D2",
      "U+118D3", "U+118D4", "U+118D5", "U+118D6", "U+118D7", "U+118D8",
      "U+118D9", "U+118DA", "U+118DB", "U+118DC", "U+118DD", "U+118DE",
      "U+118DF", "U+16E60", "U+16E61", "U+16E62", "U+16E63", "U+16E64",
      "U+16E65", "U+16E66", "U+16E67", "U+16E68", "U+16E69", "U+16E6A",
      "U+16E6B", "U+16E6C", "U+16E6D", "U+16E6E", "U+16E6F", "U+16E70",
      "U+16E71", "U+16E72", "U+16E73", "U+16E74", "U+16E75", "U+16E76",
      "U+16E77", "U+16E78", "U+16E79", "U+16E7A", "U+16E7B", "U+16E7C",
      "U+16E7D", "U+16E7E", "U+16E7F", "U+1E922", "U+1E923", "U+1E924",
      "U+1E925", "U+1E926", "U+1E927", "U+1E928", "U+1E929", "U+1E92A",
      "U+1E92B", "U+1E92C", "U+1E92D", "U+1E92E", "U+1E92F", "U+1E930",
      "U+1E931", "U+1E932", "U+1E933", "U+1E934", "U+1E935", "U+1E936",
      "U+1E937", "U+1E938", "U+1E939", "U+1E93A", "U+1E93B", "U+1E93C",
      "U+1E93D", "U+1E93E", "U+1E93F", "U+1E940", "U+1E941", "U+1E942",
      "U+1E943"
    >>

\* c.upper() for each of them, in the same order
UpperTo ==
    <<
      <<"A">>, <<"B">>, <<"C">>, <<"D">>, <<"E">>, <<"F">>, <<"G">>, <<"H">>,
      <<"I">>, <<"J">>, <<"K">>, <<"L">>, <<"M">>, <<"N">>, <<"O">>, <<"P">>,
      <<"Q">>, <<"R">>, <<"S">>, <<"T">>, <<"U">>, <<"V">>, <<"W">>, <<"X">>,
      <<"Y">>, <<"Z">>, <<"U+039C">>, <<"S", "S">>, <<"U+00C0">>,
      <<"U+00C1">>, <<"U+00C2">>, <<"U+00C3">>, <<"U+00C4">>, <<"U+00C5">>,
      <<"U+00C6">>, <<"U+00C7">>, <<"U+00C8">>, <<"U+00C9">>, <<"U+00CA">>,
      <<"U+00CB">>, <<"U+00CC">>, <<"U+00CD">>, <<"U+00CE">>, <<"U+00CF">>,
      <<"U+00D0">>, <<"U+00D1">>, <<"U+00D2">>, <<"U+00D3">>, <<"U+00D4">>,
      <<"U+00D5">>, <<"U+00D6">>, <<"U+00D8">>, <<"U+00D9">>, <<"U+00DA">>,
      <<"U+00DB">>, <<"U+00DC">>, <<"U+00DD">>, <<"U+00DE">>, <<"U+0178">>,
      <<"U+0100">>, <<"U+0102">>, <<"U+0104">>, <<"U+0106">>, <<"U+0108">>,
      <<"U+010A">>, <<"U+010C">>, <<"U+010E">>, <<"U+0110">>, <<"U+0112">>,
      <<"U+0114">>, <<"U+0116">>, <<"U+0118">>, <<"U+011A">>, <<"U+011C">>,
      <<"U+011E">>, <<"U+0120">>, <<"U+0122">>, <<"U+0124">>, <<"U+0126">>,
      <<"U+0128">>, <<"U+012A">>, <<"U+012C">>, <<"U+012E">>, <<"I">>,
      <<"U+0132">>, <<"U+0134">>, <<"U+0136">>, <<"U+0139">>, <<"U+013B">>,
      <<"U+013D">>, <<"U+013F">>, <<"U+0141">>, <<"U+0143">>, <<"U+0145">>,
      <<"U+0147">>, <<"U+02BC", "N">>, <<"U+014A">>, <<"U+014C">>,
      <<"U+014E">>, <<"U+0150">>, <<"U+0152">>, <<"U+0154">>, <<"U+0156">>,
      <<"U+0158">>, <<"U+015A">>, <<"U+015C">>, <<"U+015E">>, <<"U+0160">>,
      <<"U+0162">>, <<"U+0164">>, <<"U+0166">>, <<"U+0168">>, <<"U+016A">>,
      <<"U+016C">>, <<"U+016E">>, <<"U+0170">>, <<"U+0172">>, <<"U+0174">>,
      <<"U+0176">>, <<"U+0179">>, <<"U+017B">>, <<"U+017D">>, <<"S">>,
      <<"U+0243">>, <<"U+0182">>, <<"U+0184">>, <<"U+0187">>, <<"U+018B">>,
      <<"U+0191">>, <<"U+01F6">>, <<"U+0198">>, <<"U+023D">>, <<"U+0220">>,
      <<"U+01A0">>, <<"U+01A2">>, <<"U+01A4">>, <<"U+01A7">>, <<"U+01AC">>,
      <<"U+01AF">>, <<"U+01B3">>, <<"U+01B5">>, <<"U+01B8">>, <<"U+01BC">>,
      <<"U+01F7">>, <<"U+01C4">>, <<"U+01C4">>, <<"U+01C7">>, <<"U+01C7">>,
      <<"U+01CA">>, <<"U+01CA">>, <<"U+01CD">>, <<"U+01CF">>, <<"U+01D1">>,
      <<"U+01D3">>, <<"U+01D5">>, <<"U+01D7">>, <<"U+01D9">>, <<"U+01DB">>,
      <<"U+018E">>, <<"U+01DE">>, <<"U+01E0">>, <<"U+01E2">>, <<"U+01E4">>,
      <<"U+01E6">>, <<"U+01E8">>, <<"U+01EA">>, <<"U+01EC">>, <<"U+01EE">>,
      <<"J", "U+030C">>, <<"U+01F1">>, <<"U+01F1">>, <<"U+01F4">>,
      <<"U+01F8">>, <<"U+01FA">>, <<"U+01FC">>, <<"U+01FE">>, <<"U+0200">>,
      <<"U+0202">>, <<"U+0204">>, <<"U+0206">>, <<"U+0208">>, <<"U+020A">>,
      <<"U+020C">>, <<"U+020E">>, <<"U+0210">>, <<"U+0212">>, <<"U+0214">>,
      <<"U+0216">>, <<"U+0218">>, <<"U+021A">>, <<"U+021C">>, <<"U+021E">>,
      <<"U+0222">>, <<"U+0224">>, <<"U+0226">>, <<"U+0228">>, <<"U+022A">>,
      <<"U+022C">>, <<"U+022E">>, <<"U+0230">>, <<"U+0232">>, <<"U+023B">>,
      <<"U+2C7E">>, <<"U+2C7F">>, <<"U+0241">>, <<"U+0246">>, <<"U+0248">>,
      <<"U+024A">>, <<"U+024C">>, <<"U+024E">>, <<"U+2C6F">>, <<"U+2C6D">>,
      <<"U+2C70">>, <<"U+0181">>, <<"U+0186">>, <<"U+0189">>, <<"U+018A">>,
      <<"U+018F">>, <<"U+0190">>, <<"U+A7AB">>, <<"U+0193">>, <<"U+A7AC">>,
      <<"U+0194">>, <<"U+A78D">>, <<"U+A7AA">>, <<"U+0197">>, <<"U+0196">>,
      <<"U+A7AE">>, <<"U+2C62">>, <<"U+A7AD">>, <<"U+019C">>, <<"U+2C6E">>,
      <<"U+019D">>, <<"U+019F">>, <<"U+2C64">>, <<"U+01A6">>, <<"U+A7C5">>,
      <<"U+01A9">>, <<"U+A7B1">>, <<"U+01AE">>, <<"U+0244">>, <<"U+01B1">>,
      <<"U+01B2">>, <<"U+0245">>, <<"U+01B7">>, <<"U+A7B2">>, <<"U+A7B0">>,
      <<"U+0399">>, <<"U+0370">>, <<"U+0372">>, <<"U+0376">>, <<"U+03FD">>,
      <<"U+03FE">>, <<"U+03FF">>, <<"U+0399", "U+0308", "U+0301">>,
      <<"U+0386">>, <<"U+0388">>, <<"U+0389">>, <<"U+038A">>,
      <<"U+03A5", "U+0308", "U+0301">>, <<"U+0391">>, <<"U+0392">>,
      <<"U+0393">>, <<"U+0394">>, <<"U+0395">>, <<"U+0396">>, <<"U+0397">>,
      <<"U+0398">>, <<"U+0399">>, <<"U+039A">>, <<"U+039B">>, <<"U+039C">>,
      <<"U+039D">>, <<"U+039E">>, <<"U+039F">>, <<"U+03A0">>, <<"U+03A1">>,
      <<"U+03A3">>, <<"U+03A3">>, <<"U+03A4">>, <<"U+03A5">>, <<"U+03A6">>,
      <<"U+03A7">>, <<"U+03A8">>, <<"U+03A9">>, <<"U+03AA">>, <<"U+03AB">>,
      <<"U+038C">>, <<"U+038E">>, <<"U+038F">>, <<"U+0392">>, <<"U+0398">>,
      <<"U+03A6">>, <<"U+03A0">>, <<"U+03CF">>, <<"U+03D8">>, <<"U+03DA">>,
      <<"U+03DC">>, <<"U+03DE">>, <<"U+03E0">>, <<"U+03E2">>, <<"U+03E4">>,
      <<"U+03E6">>, <<"U+03E8">>, <<"U+03EA">>, <<"U+03EC">>, <<"U+03EE">>,
      <<"U+039A">>, <<"U+03A1">>, <<"U+03F9">>, <<"U+037F">>, <<"U+0395">>,
      <<"U+03F7">>, <<"U+03FA">>, <<"U+0410">>, <<"U+0411">>, <<"U+0412">>,
      <<"U+0413">>, <<"U+0414">>, <<"U+0415">>, <<"U+0416">>, <<"U+0417">>,
      <<"U+0418">>, <<"U+0419">>, <<"U+041A">>, <<"U+041B">>, <<"U+041C">>,
      <<"U+041D">>, <<"U+041E">>, <<"U+041F">>, <<"U+0420">>, <<"U+0421">>,
      <<"U+0422">>, <<"U+0423">>, <<"U+0424">>, <<"U+0425">>, <<"U+0426">>,
      <<"U+0427">>, <<"U+0428">>, <<"U+0429">>, <<"U+042A">>, <<"U+042B">>,
      <<"U+042C">>, <<"U+042D">>, <<"U+042E">>, <<"U+042F">>, <<"U+0400">>,
      <<"U+0401">>, <<"U+0402">>, <<"U+0403">>, <<"U+0404">>, <<"U+0405">>,
      <<"U+0406">>, <<"U+0407">>, <<"U+0408">>, <<"U+0409">>, <<"U+040A">>,
      <<"U+040B">>, <<"U+040C">>, <<"U+040D">>, <<"U+040E">>, <<"U+040F">>,
      <<"U+0460">>, <<"U+0462">>, <<"U+0464">>, <<"U+0466">>, <<"U+0468">>,
      <<"U+046A">>, <<"U+046C">>, <<"U+046E">>, <<"U+0470">>, <<"U+0472">>,
      <<"U+0474">>, <<"U+0476">>, <<"U+0478">>, <<"U+047A">>, <<"U+047C">>,
      <<"U+047E">>, <<"U+0480">>, <<"U+048A">>, <<"U+048C">>, <<"U+048E">>,
      <<"U+0490">>, <<"U+0492">>, <<"U+0494">>, <<"U+0496">>, <<"U+0498">>,
      <<"U+049A">>, <<"U+049C">>, <<"U+049E">>, <<"U+04A0">>, <<"U+04A2">>,
      <<"U+04A4">>, <<"U+04A6">>, <<"U+04A8">>, <<"U+04AA">>, <<"U+04AC">>,
      <<"U+04AE">>, <<"U+04B0">>, <<"U+04B2">>, <<"U+04B4">>, <<"U+04B6">>,
      <<"U+04B8">>, <<"U+04BA">>, <<"U+04BC">>, <<"U+04BE">>, <<"U+04C1">>,
      <<"U+04C3">>, <<"U+04C5">>, <<"U+04C7">>, <<"U+04C9">>, <<"U+04CB">>,
      <<"U+04CD">>, <<"U+04C0">>, <<"U+04D0">>, <<"U+04D2">>, <<"U+04D4">>,
      <<"U+04D6">>, <<"U+04D8">>, <<"U+04DA">>, <<"U+04DC">>, <<"U+04DE">>,
      <<"U+04E0">>, <<"U+04E2">>, <<"U+04E4">>, <<"U+04E6">>, <<"U+04E8">>,
      <<"U+04EA">>, <<"U+04EC">>, <<"U+04EE">>, <<"U+04F0">>, <<"U+04F2">>,
      <<"U+04F4">>, <<"U+04F6">>, <<"U+04F8">>, <<"U+04FA">>, <<"U+04FC">>,
      <<"U+04FE">>, <<"U+0500">>, <<"U+0502">>, <<"U+0504">>, <<"U+0506">>,
      <<"U+0508">>, <<"U+050A">>, <<"U+050C">>, <<"U+050E">>, <<"U+0510">>,
      <<"U+0512">>, <<"U+0514">>, <<"U+0516">>, <<"U+0518">>, <<"U+051A">>,
      <<"U+051C">>, <<"U+051E">>, <<"U+0520">>, <<"U+0522">>, <<"U+0524">>,
      <<"U+0526">>, <<"U+0528">>, <<"U+052A">>, <<"U+052C">>, <<"U+052E">>,
      <<"U+0531">>, <<"U+0532">>, <<"U+0533">>, <<"U+0534">>, <<"U+0535">>,
      <<"U+0536">>, <<"U+0537">>, <<"U+0538">>, <<"U+0539">>, <<"U+053A">>,
      <<"U+053B">>, <<"U+053C">>, <<"U+053D">>, <<"U+053E">>, <<"U+053F">>,
      <<"U+0540">>, <<"U+0541">>, <<"U+0542">>, <<"U+0543">>, <<"U+0544">>,
      <<"U+0545">>, <<"U+0546">>, <<"U+0547">>, <<"U+0548">>, <<"U+0549">>,
      <<"U+054A">>, <<"U+054B">>, <<"U+054C">>, <<"U+054D">>, <<"U+054E">>,
      <<"U+054F">>, <<"U+0550">>, <<"U+0551">>, <<"U+0552">>, <<"U+0553">>,
      <<"U+0554">>, <<"U+0555">>, <<"U+0556">>, <<"U+0535", "U+0552">>,
      <<"U+1C90">>, <<"U+1C91">>, <<"U+1C92">>, <<"U+1C93">>, <<"U+1C94">>,
      <<"U+1C95">>, <<"U+1C96">>, <<"U+1C97">>, <<"U+1C98">>, <<"U+1C99">>,
      <<"U+1C9A">>, <<"U+1C9B">>, <<"U+1C9C">>, <<"U+1C9D">>, <<"U+1C9E">>,
      <<"U+1C9F">>, <<"U+1CA0">>, <<"U+1CA1">>, <<"U+1CA2">>, <<"U+1CA3">>,
      <<"U+1CA4">>, <<"U+1CA5">>, <<"U+1CA6">>, <<"U+1CA7">>, <<"U+1CA8">>,
      <<"U+1CA9">>, <<"U+1CAA">>, <<"U+1CAB">>, <<"U+1CAC">>, <<"U+1CAD">>,
      <<"U+1CAE">>, <<"U+1CAF">>, <<"U+1CB0">>, <<"U+1CB1">>, <<"U+1CB2">>,
      <<"U+1CB3">>, <<"U+1CB4">>, <<"U+1CB5">>, <<"U+1CB6">>, <<"U+1CB7">>,
      <<"U+1CB8">>, <<"U+1CB9">>, <<"U+1CBA">>, <<"U+1CBD">>, <<"U+1CBE">>,
      <<"U+1CBF">>, <<"U+13F0">>, <<"U+13F1">>, <<"U+13F2">>, <<"U+13F3">>,
      <<"U+13F4">>, <<"U+13F5">>, <<"U+0412">>, <<"U+0414">>, <<"U+041E">>,
      <<"U+0421">>, <<"U+0422">>, <<"U+0422">>, <<"U+042A">>, <<"U+0462">>,
      <<"U+A64A">>, <<"U+A77D">>, <<"U+2C63">>, <<"U+A7C6">>, <<"U+1E00">>,
      <<"U+1E02">>, <<"U+1E04">>, <<"U+1E06">>, <<"U+1E08">>, <<"U+1E0A">>,
      <<"U+1E0C">>, <<"U+1E0E">>, <<"U+1E10">>, <<"U+1E12">>, <<"U+1E14">>,
      <<"U+1E16">>, <<"U+1E18">>, <<"U+1E1A">>, <<"U+1E1C">>, <<"U+1E1E">>,
      <<"U+1E20">>, <<"U+1E22">>, <<"U+1E24">>, <<"U+1E26">>, <<"U+1E28">>,
      <<"U+1E2A">>, <<"U+1E2C">>, <<"U+1E2E">>, <<"U+1E30">>, <<"U+1E32">>,
      <<"U+1E34">>, <<"U+1E36">>, <<"U+1E38">>, <<"U+1E3A">>, <<"U+1E3C">>,
      <<"U+1E3E">>, <<"U+1E40">>, <<"U+1E42">>, <<"U+1E44">>, <<"U+1E46">>,
      <<"U+1E48">>, <<"U+1E4A">>, <<"U+1E4C">>, <<"U+1E4E">>, <<"U+1E50">>,
      <<"U+1E52">>, <<"U+1E54">>, <<"U+1E56">>, <<"U+1E58">>, <<"U+1E5A">>,
      <<"U+1E5C">>, <<"U+1E5E">>, <<"U+1E60">>, <<"U+1E62">>, <<"U+1E64">>,
      <<"U+1E66">>, <<"U+1E68">>, <<"U+1E6A">>, <<"U+1E6C">>, <<"U+1E6E">>,
      <<"U+1E70">>, <<"U+1E72">>, <<"U+1E74">>, <<"U+1E76">>, <<"U+1E78">>,
      <<"U+1E7A">>, <<"U+1E7C">>, <<"U+1E7E">>, <<"U+1E80">>, <<"U+1E82">>,
      <<"U+1E84">>, <<"U+1E86">>, <<"U+1E88">>, <<"U+1E8A">>, <<"U+1E8C">>,
      <<"U+1E8E">>, <<"U+1E90">>, <<"U+1E92">>, <<"U+1E94">>,
      <<"H", "U+0331">>, <<"T", "U+0308">>, <<"W", "U+030A">>,
      <<"Y", "U+030A">>, <<"A", "U+02BE">>, <<"U+1E60">>, <<"U+1EA0">>,
      <<"U+1EA2">>, <<"U+1EA4">>, <<"U+1EA6">>, <<"U+1EA8">>, <<"U+1EAA">>,
      <<"U+1EAC">>, <<"U+1EAE">>, <<"U+1EB0">>, <<"U+1EB2">>, <<"U+1EB4">>,
      <<"U+1EB6">>, <<"U+1EB8">>, <<"U+1EBA">>, <<"U+1EBC">>, <<"U+1EBE">>,
      <<"U+1EC0">>, <<"U+1EC2">>, <<"U+1EC4">>, <<"U+1EC6">>, <<"U+1EC8">>,
      <<"U+1ECA">>, <<"U+1ECC">>, <<"U+1ECE">>, <<"U+1ED0">>, <<"U+1ED2">>,
      <<"U+1ED4">>, <<"U+1ED6">>, <<"U+1ED8">>, <<"U+1EDA">>, <<"U+1EDC">>,
      <<"U+1EDE">>, <<"U+1EE0">>, <<"U+1EE2">>, <<"U+1EE4">>, <<"U+1EE6">>,
      <<"U+1EE8">>, <<"U+1EEA">>, <<"U+1EEC">>, <<"U+1EEE">>, <<"U+1EF0">>,
      <<"U+1EF2">>, <<"U+1EF4">>, <<"U+1EF6">>, <<"U+1EF8">>, <<"U+1EFA">>,
      <<"U+1EFC">>, <<"U+1EFE">>, <<"U+1F08">>, <<"U+1F09">>, <<"U+1F0A">>,
      <<"U+1F0B">>, <<"U+1F0C">>, <<"U+1F0D">>, <<"U+1F0E">>, <<"U+1F0F">>,
      <<"U+1F18">>, <<"U+1F19">>, <<"U+1F1A">>, <<"U+1F1B">>, <<"U+1F1C">>,
      <<"U+1F1D">>, <<"U+1F28">>, <<"U+1F29">>, <<"U+1F2A">>, <<"U+1F2B">>,
      <<"U+1F2C">>, <<"U+1F2D">>, <<"U+1F2E">>, <<"U+1F2F">>, <<"U+1F38">>,
      <<"U+1F39">>, <<"U+1F3A">>, <<"U+1F3B">>, <<"U+1F3C">>, <<"U+1F3D">>,
      <<"U+1F3E">>, <<"U+1F3F">>, <<"U+1F48">>, <<"U+1F49">>, <<"U+1F4A">>,
      <<"U+1F4B">>, <<"U+1F4C">>, <<"U+1F4D">>, <<"U+03A5", "U+0313">>,
      <<"U+1F59">>, <<"U+03A5", "U+0313", "U+0300">>, <<"U+1F5B">>,
      <<"U+03A5", "U+0313", "U+0301">>, <<"U+1F5D">>,
      <<"U+03A5", "U+0313", "U+0342">>, <<"U+1F5F">>, <<"U+1F68">>,
      <<"U+1F69">>, <<"U+1F6A">>, <<"U+1F6B">>, <<"U+1F6C">>, <<"U+1F6D">>,
      <<"U+1F6E">>, <<"U+1F6F">>, <<"U+1FBA">>, <<"U+1FBB">>, <<"U+1FC8">>,
      <<"U+1FC9">>, <<"U+1FCA">>, <<"U+1FCB">>, <<"U+1FDA">>, <<"U+1FDB">>,
      <<"U+1FF8">>, <<"U+1FF9">>, <<"U+1FEA">>, <<"U+1FEB">>, <<"U+1FFA">>,
      <<"U+1FFB">>, <<"U+1F08", "U+0399">>, <<"U+1F09", "U+0399">>,
      <<"U+1F0A", "U+0399">>, <<"U+1F0B", "U+0399">>, <<"U+1F0C", "U+0399">>,
      <<"U+1F0D", "U+0399">>, <<"U+1F0E", "U+0399">>, <<"U+1F0F", "U+0399">>,
      <<"U+1F08", "U+0399">>, <<"U+1F09", "U+0399">>, <<"U+1F0A", "U+0399">>,
      <<"U+1F0B", "U+0399">>, <<"U+1F0C", "U+0399">>, <<"U+1F0D", "U+0399">>,
      <<"U+1F0E", "U+0399">>, <<"U+1F0F", "U+0399">>, <<"U+1F28", "U+0399">>,
      <<"U+1F29", "U+0399">>, <<"U+1F2A", "U+0399">>, <<"U+1F2B", "U+0399">>,
      <<"U+1F2C", "U+0399">>, <<"U+1F2D", "U+0399">>, <<"U+1F2E", "U+0399">>,
      <<"U+1F2F", "U+0399">>, <<"U+1F28", "U+0399">>, <<"U+1F29", "U+0399">>,
      <<"U+1F2A", "U+0399">>, <<"U+1F2B", "U+0399">>, <<"U+1F2C", "U+0399">>,
      <<"U+1F2D", "U+0399">>, <<"U+1F2E", "U+0399">>, <<"U+1F2F", "U+0399">>,
      <<"U+1F68", "U+0399">>, <<"U+1F69", "U+0399">>, <<"U+1F6A", "U+0399">>,
      <<"U+1F6B", "U+0399">>, <<"U+1F6C", "U+0399">>, <<"U+1F6D", "U+0399">>,
      <<"U+1F6E", "U+0399">>, <<"U+1F6F", "U+0399">>, <<"U+1F68", "U+0399">>,
      <<"U+1F69", "U+0399">>, <<"U+1F6A", "U+0399">>, <<"U+1F6B", "U+0399">>,
      <<"U+1F6C", "U+0399">>, <<"U+1F6D", "U+0399">>, <<"U+1F6E", "U+0399">>,
      <<"U+1F6F", "U+0399">>, <<"U+1FB8">>, <<"U+1FB9">>,
      <<"U+1FBA", "U+0399">>, <<"U+0391", "U+0399">>, <<"U+0386", "U+0399">>,
      <<"U+0391", "U+0342">>, <<"U+0391", "U+0342", "U+0399">>,
      <<"U+0391", "U+0399">>, <<"U+0399">>, <<"U+1FCA", "U+0399">>,
      <<"U+0397", "U+0399">>, <<"U+0389", "U+0399">>, <<"U+0397", "U+0342">>,
      <<"U+0397", "U+0342", "U+0399">>, <<"U+0397", "U+0399">>, <<"U+1FD8">>,
      <<"U+1FD9">>, <<"U+0399", "U+0308", "U+0300">>,
      <<"U+0399", "U+0308", "U+0301">>, <<"U+0399", "U+0342">>,
      <<"U+0399", "U+0308", "U+0342">>, <<"U+1FE8">>, <<"U+1FE9">>,
      <<"U+03A5", "U+0308", "U+0300">>, <<"U+03A5", "U+0308", "U+0301">>,
      <<"U+03A1", "U+0313">>, <<"U+1FEC">>, <<"U+03A5", "U+0342">>,
      <<"U+03A5", "U+0308", "U+0342">>, <<"U+1FFA", "U+0399">>,
      <<"U+03A9", "U+0399">>, <<"U+038F", "U+0399">>, <<"U+03A9", "U+0342">>,
      <<"U+03A9", "U+0342", "U+0399">>, <<"U+03A9", "U+0399">>, <<"U+2132">>,
      <<"U+2160">>, <<"U+2161">>, <<"U+2162">>, <<"U+2163">>, <<"U+2164">>,
      <<"U+2165">>, <<"U+2166">>, <<"U+2167">>, <<"U+2168">>, <<"U+2169">>,
      <<"U+216A">>, <<"U+216B">>, <<"U+216C">>, <<"U+216D">>, <<"U+216E">>,
      <<"U+216F">>, <<"U+2183">>, <<"U+24B6">>, <<"U+24B7">>, <<"U+24B8">>,
      <<"U+24B9">>, <<"U+24BA">>, <<"U+24BB">>, <<"U+24BC">>, <<"U+24BD">>,
      <<"U+24BE">>, <<"U+24BF">>, <<"U+24C0">>, <<"U+24C1">>, <<"U+24C2">>,
      <<"U+24C3">>, <<"U+24C4">>, <<"U+24C5">>, <<"U+24C6">>, <<"U+24C7">>,
      <<"U+24C8">>, <<"U+24C9">>, <<"U+24CA">>, <<"U+24CB">>, <<"U+24CC">>,
      <<"U+24CD">>, <<"U+24CE">>, <<"U+24CF">>, <<"U+2C00">>, <<"U+2C01">>,
      <<"U+2C02">>, <<"U+2C03">>, <<"U+2C04">>, <<"U+2C05">>, <<"U+2C06">>,
      <<"U+2C07">>, <<"U+2C08">>, <<"U+2C09">>, <<"U+2C0A">>, <<"U+2C0B">>,
      <<"U+2C0C">>, <<"U+2C0D">>, <<"U+2C0E">>, <<"U+2C0F">>, <<"U+2C10">>,
      <<"U+2C11">>, <<"U+2C12">>, <<"U+2C13">>, <<"U+2C14">>, <<"U+2C15">>,
      <<"U+2C16">>, <<"U+2C17">>, <<"U+2C18">>, <<"U+2C19">>, <<"U+2C1A">>,
      <<"U+2C1B">>, <<"U+2C1C">>, <<"U+2C1D">>, <<"U+2C1E">>, <<"U+2C1F">>,
      <<"U+2C20">>, <<"U+2C21">>, <<"U+2C22">>, <<"U+2C23">>, <<"U+2C24">>,
      <<"U+2C25">>, <<"U+2C26">>, <<"U+2C27">>, <<"U+2C28">>, <<"U+2C29">>,
      <<"U+2C2A">>, <<"U+2C2B">>, <<"U+2C2C">>, <<"U+2C2D">>, <<"U+2C2E">>,
      <<"U+2C2F">>, <<"U+2C60">>, <<"U+023A">>, <<"U+023E">>, <<"U+2C67">>,
      <<"U+2C69">>, <<"U+2C6B">>, <<"U+2C72">>, <<"U+2C75">>, <<"U+2C80">>,
      <<"U+2C82">>, <<"U+2C84">>, <<"U+2C86">>, <<"U+2C88">>, <<"U+2C8A">>,
      <<"U+2C8C">>, <<"U+2C8E">>, <<"U+2C90">>, <<"U+2C92">>, <<"U+2C94">>,
      <<"U+2C96">>, <<"U+2C98">>, <<"U+2C9A">>, <<"U+2C9C">>, <<"U+2C9E">>,
      <<"U+2CA0">>, <<"U+2CA2">>, <<"U+2CA4">>, <<"U+2CA6">>, <<"U+2CA8">>,
      <<"U+2CAA">>, <<"U+2CAC">>, <<"U+2CAE">>, <<"U+2CB0">>, <<"U+2CB2">>,
      <<"U+2CB4">>, <<"U+2CB6">>, <<"U+2CB8">>, <<"U+2CBA">>, <<"U+2CBC">>,
      <<"U+2CBE">>, <<"U+2CC0">>, <<"U+2CC2">>, <<"U+2CC4">>, <<"U+2CC6">>,
      <<"U+2CC8">>, <<"U+2CCA">>, <<"U+2CCC">>, <<"U+2CCE">>, <<"U+2CD0">>,
      <<"U+2CD2">>, <<"U+2CD4">>, <<"U+2CD6">>, <<"U+2CD8">>, <<"U+2CDA">>,
      <<"U+2CDC">>, <<"U+2CDE">>, <<"U+2CE0">>, <<"U+2CE2">>, <<"U+2CEB">>,
      <<"U+2CED">>, <<"U+2CF2">>, <<"U+10A0">>, <<"U+10A1">>, <<"U+10A2">>,
      <<"U+10A3">>, <<"U+10A4">>, <<"U+10A5">>, <<"U+10A6">>, <<"U+10A7">>,
      <<"U+10A8">>, <<"U+10A9">>, <<"U+10AA">>, <<"U+10AB">>, <<"U+10AC">>,
      <<"U+10AD">>, <<"U+10AE">>, <<"U+10AF">>, <<"U+10B0">>, <<"U+10B1">>,
      <<"U+10B2">>, <<"U+10B3">>, <<"U+10B4">>, <<"U+10B5">>, <<"U+10B6">>,
      <<"U+10B7">>, <<"U+10B8">>, <<"U+10B9">>, <<"U+10BA">>, <<"U+10BB">>,
      <<"U+10BC">>, <<"U+10BD">>, <<"U+10BE">>, <<"U+10BF">>, <<"U+10C0">>,
      <<"U+10C1">>, <<"U+10C2">>, <<"U+10C3">>, <<"U+10C4">>, <<"U+10C5">>,
      <<"U+10C7">>, <<"U+10CD">>, <<"U+A640">>, <<"U+A642">>, <<"U+A644">>,
      <<"U+A646">>, <<"U+A648">>, <<"U+A64A">>, <<"U+A64C">>, <<"U+A64E">>,
      <<"U+A650">>, <<"U+A652">>, <<"U+A654">>, <<"U+A656">>, <<"U+A658">>,
      <<"U+A65A">>, <<"U+A65C">>, <<"U+A65E">>, <<"U+A660">>, <<"U+A662">>,
      <<"U+A664">>, <<"U+A666">>, <<"U+A668">>, <<"U+A66A">>, <<"U+A66C">>,
      <<"U+A680">>, <<"U+A682">>, <<"U+A684">>, <<"U+A686">>, <<"U+A688">>,
      <<"U+A68A">>, <<"U+A68C">>, <<"U+A68E">>, <<"U+A690">>, <<"U+A692">>,
      <<"U+A694">>, <<"U+A696">>, <<"U+A698">>, <<"U+A69A">>, <<"U+A722">>,
      <<"U+A724">>, <<"U+A726">>, <<"U+A728">>, <<"U+A72A">>, <<"U+A72C">>,
      <<"U+A72E">>, <<"U+A732">>, <<"U+A734">>, <<"U+A736">>, <<"U+A738">>,
      <<"U+A73A">>, <<"U+A73C">>, <<"U+A73E">>, <<"U+A740">>, <<"U+A742">>,
      <<"U+A744">>, <<"U+A746">>, <<"U+A748">>, <<"U+A74A">>, <<"U+A74C">>,
      <<"U+A74E">>, <<"U+A750">>, <<"U+A752">>, <<"U+A754">>, <<"U+A756">>,
      <<"U+A758">>, <<"U+A75A">>, <<"U+A75C">>, <<"U+A75E">>, <<"U+A760">>,
      <<"U+A762">>, <<"U+A764">>, <<"U+A766">>, <<"U+A768">>, <<"U+A76A">>,
      <<"U+A76C">>, <<"U+A76E">>, <<"U+A779">>, <<"U+A77B">>, <<"U+A77E">>,
      <<"U+A780">>, <<"U+A782">>, <<"U+A784">>, <<"U+A786">>, <<"U+A78B">>,
      <<"U+A790">>, <<"U+A792">>, <<"U+A7C4">>, <<"U+A796">>, <<"U+A798">>,
      <<"U+A79A">>, <<"U+A79C">>, <<"U+A79E">>, <<"U+A7A0">>, <<"U+A7A2">>,
      <<"U+A7A4">>, <<"U+A7A6">>, <<"U+A7A8">>, <<"U+A7B4">>, <<"U+A7B6">>,
      <<"U+A7B8">>, <<"U+A7BA">>, <<"U+A7BC">>, <<"U+A7BE">>, <<"U+A7C0">>,
      <<"U+A7C2">>, <<"U+A7C7">>, <<"U+A7C9">>, <<"U+A7D0">>, <<"U+A7D6">>,
      <<"U+A7D8">>, <<"U+A7F5">>, <<"U+A7B3">>, <<"U+13A0">>, <<"U+13A1">>,
      <<"U+13A2">>, <<"U+13A3">>, <<"U+13A4">>, <<"U+13A5">>, <<"U+13A6">>,
      <<"U+13A7">>, <<"U+13A8">>, <<"U+13A9">>, <<"U+13AA">>, <<"U+13AB">>,
      <<"U+13AC">>, <<"U+13AD">>, <<"U+13AE">>, <<"U+13AF">>, <<"U+13B0">>,
      <<"U+13B1">>, <<"U+13B2">>, <<"U+13B3">>, <<"U+13B4">>, <<"U+13B5">>,
      <<"U+13B6">>, <<"U+13B7">>, <<"U+13B8">>, <<"U+13B9">>, <<"U+13BA">>,
      <<"U+13BB">>, <<"U+13BC">>, <<"U+13BD">>, <<"U+13BE">>, <<"U+13BF">>,
      <<"U+13C0">>, <<"U+13C1">>, <<"U+13C2">>, <<"U+13C3">>, <<"U+13C4">>,
      <<"U+13C5">>, <<"U+13C6">>, <<"U+13C7">>, <<"U+13C8">>, <<"U+13C9">>,
      <<"U+13CA">>, <<"U+13CB">>, <<"U+13CC">>, <<"U+13CD">>, <<"U+13CE">>,
      <<"U+13CF">>, <<"U+13D0">>, <<"U+13D1">>, <<"U+13D2">>, <<"U+13D3">>,
      <<"U+13D4">>, <<"U+13D5">>, <<"U+13D6">>, <<"U+13D7">>, <<"U+13D8">>,
      <<"U+13D9">>, <<"U+13DA">>, <<"U+13DB">>, <<"U+13DC">>, <<"U+13DD">>,
      <<"U+13DE">>, <<"U+13DF">>, <<"U+13E0">>, <<"U+13E1">>, <<"U+13E2">>,
      <<"U+13E3">>, <<"U+13E4">>, <<"U+13E5">>, <<"U+13E6">>, <<"U+13E7">>,
      <<"U+13E8">>, <<"U+13E9">>, <<"U+13EA">>, <<"U+13EB">>, <<"U+13EC">>,
      <<"U+13ED">>, <<"U+13EE">>, <<"U+13EF">>, <<"F", "F">>, <<"F", "I">>,
      <<"F", "L">>, <<"F", "F", "I">>, <<"F", "F", "L">>, <<"S", "T">>,
      <<"S", "T">>, <<"U+0544", "U+0546">>, <<"U+0544", "U+0535">>,
      <<"U+0544", "U+053B">>, <<"U+054E", "U+0546">>, <<"U+0544", "U+053D">>,
      <<"U+FF21">>, <<"U+FF22">>, <<"U+FF23">>, <<"U+FF24">>, <<"U+FF25">>,
      <<"U+FF26">>, <<"U+FF27">>, <<"U+FF28">>, <<"U+FF29">>, <<"U+FF2A">>,
      <<"U+FF2B">>, <<"U+FF2C">>, <<"U+FF2D">>, <<"U+FF2E">>, <<"U+FF2F">>,
      <<"U+FF30">>, <<"U+FF31">>, <<"U+FF32">>, <<"U+FF33">>, <<"U+FF34">>,
      <<"U+FF35">>, <<"U+FF36">>, <<"U+FF37">>, <<"U+FF38">>, <<"U+FF39">>,
      <<"U+FF3A">>, <<"U+10400">>, <<"U+10401">>, <<"U+10402">>,
      <<"U+10403">>, <<"U+10404">>, <<"U+10405">>, <<"U+10406">>,
      <<"U+10407">>, <<"U+10408">>, <<"U+10409">>, <<"U+1040A">>,
      <<"U+1040B">>, <<"U+1040C">>, <<"U+1040D">>, <<"U+1040E">>,
      <<"U+1040F">>, <<"U+10410">>, <<"U+10411">>, <<"U+10412">>,
      <<"U+10413">>, <<"U+10414">>, <<"U+10415">>, <<"U+10416">>,
      <<"U+10417">>, <<"U+10418">>, <<"U+10419">>, <<"U+1041A">>,
      <<"U+1041B">>, <<"U+1041C">>, <<"U+1041D">>, <<"U+1041E">>,
      <<"U+1041F">>, <<"U+10420">>, <<"U+10421">>, <<"U+10422">>,
      <<"U+10423">>, <<"U+10424">>, <<"U+10425">>, <<"U+10426">>,
      <<"U+10427">>, <<"U+104B0">>, <<"U+104B1">>, <<"U+104B2">>,
      <<"U+104B3">>, <<"U+104B4">>, <<"U+104B5">>, <<"U+104B6">>,
      <<"U+104B7">>, <<"U+104B8">>, <<"U+104B9">>, <<"U+104BA">>,
      <<"U+104BB">>, <<"U+104BC">>, <<"U+104BD">>, <<"U+104BE">>,
      <<"U+104BF">>, <<"U+104C0">>, <<"U+104C1">>, <<"U+104C2">>,
      <<"U+104C3">>, <<"U+104C4">>, <<"U+104C5">>, <<"U+104C6">>,
      <<"U+104C7">>, <<"U+104C8">>, <<"U+104C9">>, <<"U+104CA">>,
      <<"U+104CB">>, <<"U+104CC">>, <<"U+104CD">>, <<"U+104CE">>,
      <<"U+104CF">>, <<"U+104D0">>, <<"U+104D1">>, <<"U+104D2">>,
      <<"U+104D3">>, <<"U+10570">>, <<"U+10571">>, <<"U+10572">>,
      <<"U+10573">>, <<"U+10574">>, <<"U+10575">>, <<"U+10576">>,
      <<"U+10577">>, <<"U+10578">>, <<"U+10579">>, <<"U+1057A">>,
      <<"U+1057C">>, <<"U+1057D">>, <<"U+1057E">>, <<"U+1057F">>,
      <<"U+10580">>, <<"U+10581">>, <<"U+10582">>, <<"U+10583">>,
      <<"U+10584">>, <<"U+10585">>, <<"U+10586">>, <<"U+10587">>,
      <<"U+10588">>, <<"U+10589">>, <<"U+1058A">>, <<"U+1058C">>,
      <<"U+1058D">>, <<"U+1058E">>, <<"U+1058F">>, <<"U+10590">>,
      <<"U+10591">>, <<"U+10592">>, <<"U+10594">>, <<"U+10595">>,
      <<"U+10C80">>, <<"U+10C81">>, <<"U+10C82">>, <<"U+10C83">>,
      <<"U+10C84">>, <<"U+10C85">>, <<"U+10C86">>, <<"U+10C87">>,
      <<"U+10C88">>, <<"U+10C89">>, <<"U+10C8A">>, <<"U+10C8B">>,
      <<"U+10C8C">>, <<"U+10C8D">>, <<"U+10C8E">>, <<"U+10C8F">>,
      <<"U+10C90">>, <<"U+10C91">>, <<"U+10C92">>, <<"U+10C93">>,
      <<"U+10C94">>, <<"U+10C95">>, <<"U+10C96">>, <<"U+10C97">>,
      <<"U+10C98">>, <<"U+10C99">>, <<"U+10C9A">>, <<"U+10C9B">>,
      <<"U+10C9C">>, <<"U+10C9D">>, <<"U+10C9E">>, <<"U+10C9F">>,
      <<"U+10CA0">>, <<"U+10CA1">>, <<"U+10CA2">>, <<"U+10CA3">>,
      <<"U+10CA4">>, <<"U+10CA5">>, <<"U+10CA6">>, <<"U+10CA7">>,
      <<"U+10CA8">>, <<"U+10CA9">>, <<"U+10CAA">>, <<"U+10CAB">>,
      <<"U+10CAC">>, <<"U+10CAD">>, <<"U+10CAE">>, <<"U+10CAF">>,
      <<"U+10CB0">>, <<"U+10CB1">>, <<"U+10CB2">>, <<"U+118A0">>,
      <<"U+118A1">>, <<"U+118A2">>, <<"U+118A3">>, <<"U+118A4">>,
      <<"U+118A5">>, <<"U+118A6">>, <<"U+118A7">>, <<"U+118A8">>,
      <<"U+118A9">>, <<"U+118AA">>, <<"U+118AB">>, <<"U+118AC">>,
      <<"U+118AD">>, <<"U+118AE">>, <<"U+118AF">>, <<"U+118B0">>,
      <<"U+118B1">>, <<"U+118B2">>, <<"U+118B3">>, <<"U+118B4">>,
      <<"U+118B5">>, <<"U+118B6">>, <<"U+118B7">>, <<"U+118B8">>,
      <<"U+118B9">>, <<"U+118BA">>, <<"U+118BB">>, <<"U+118BC">>,
      <<"U+118BD">>, <<"U+118BE">>, <<"U+118BF">>, <<"U+16E40">>,
      <<"U+16E41">>, <<"U+16E42">>, <<"U+16E43">>, <<"U+16E44">>,
      <<"U+16E45">>, <<"U+16E46">>, <<"U+16E47">>, <<"U+16E48">>,
      <<"U+16E49">>, <<"U+16E4A">>, <<"U+16E4B">>, <<"U+16E4C">>,
      <<"U+16E4D">>, <<"U+16E4E">>, <<"U+16E4F">>, <<"U+16E50">>,
      <<"U+16E51">>, <<"U+16E52">>, <<"U+16E53">>, <<"U+16E54">>,
      <<"U+16E55">>, <<"U+16E56">>, <<"U+16E57">>, <<"U+16E58">>,
      <<"U+16E59">>, <<"U+16E5A">>, <<"U+16E5B">>, <<"U+16E5C">>,
      <<"U+16E5D">>, <<"U+16E5E">>, <<"U+16E5F">>, <<"U+1E900">>,
      <<"U+1E901">>, <<"U+1E902">>, <<"U+1E903">>, <<"U+1E904">>,
      <<"U+1E905">>, <<"U+1E906">>, <<"U+1E907">>, <<"U+1E908">>,
      <<"U+1E909">>, <<"U+1E90A">>, <<"U+1E90B">>, <<"U+1E90C">>,
      <<"U+1E90D">>, <<"U+1E90E">>, <<"U+1E90F">>, <<"U+1E910">>,
      <<"U+1E911">>, <<"U+1E912">>, <<"U+1E913">>, <<"U+1E914">>,
      <<"U+1E915">>, <<"U+1E916">>, <<"U+1E917">>, <<"U+1E918">>,
      <<"U+1E919">>, <<"U+1E91A">>, <<"U+1E91B">>, <<"U+1E91C">>,
      <<"U+1E91D">>, <<"U+1E91E">>, <<"U+1E91F">>, <<"U+1E920">>,
      <<"U+1E921">>
    >>

\* the characters str.strip() removes (str.isspace)
Whitespace ==
    {
      "\t", "\n", "U+000B", "\f", "\r", "U+001C", "U+001D", "U+001E",
      "U+001F", " ", "U+0085", "U+00A0", "U+1680", "U+2000", "U+2001",
      "U+2002", "U+2003", "U+2004", "U+2005", "U+2006", "U+2007", "U+2008",
      "U+2009", "U+200A", "U+2028", "U+2029", "U+202F", "U+205F", "U+3000"
    }

Range(s) == {s[i] : i \in 1..Len(s)}

\* the regex class \d of a str pattern
Digits == UNION {Range(DigitRows[r]) : r \in 1..Len(DigitRows)}

DigitValue ==
    [c \in Digits |->
        LET r == CHOOSE r \in 1..Len(DigitRows) : c \in Range(DigitRows[r])
        IN  (CHOOSE i \in 1..10 : DigitRows[r][i] = c) - 1]

\* int(digit) for one decimal digit character
int_digit(c) == DigitValue[c]

\* str(n) for 0 <= n <= 99
str_int(n) == IF n < 10 THEN <<DigitChars[n + 1]>>
              ELSE <<DigitChars[(n \div 10) + 1], DigitChars[(n % 10) + 1]>>

\* whether t occurs in s at position i (1-based)
OccursAt(s, t, i) ==
    /\ i + Len(t) - 1 <= Len(s)
    /\ \A k \in 1..Len(t) : s[i + k - 1] = t[k]

\* s.replace(old, new) for a non-empty old: non-overlapping, left to right,
\* from one occurrence of old to the next
RECURSIVE str_replace(_, _, _)
str_replace(s, old, new) ==
    LET found == {i \in 1..Len(s) : OccursAt(s, old, i)}
    IN  IF found = {} THEN s
        ELSE LET i == CHOOSE i \in found : \A j \in found : i <= j
             IN  SubSeq(s, 1, i - 1) \o new
                   \o str_replace(SubSeq(s, i + Len(old), Len(s)), old, new)

UpperOf ==
    [c \in Range(UpperFrom) |->
        UpperTo[CHOOSE i \in 1..Len(UpperFrom) : UpperFrom[i] = c]]

\* c.upper() for one character: a string, of two or three characters for some
upper_char(c) == IF c \in DOMAIN UpperOf THEN UpperOf[c] ELSE <<c>>

\* s[lo..hi].upper(): character by character, the two halves joined
RECURSIVE upper_range(_, _, _)
upper_range(s, lo, hi) ==
    IF lo > hi THEN << >>
    ELSE IF lo = hi THEN upper_char(s[lo])
    ELSE upper_range(s, lo, (lo + hi) \div 2)
           \o upper_range(s, (lo + hi) \div 2 + 1, hi)

\* s.upper()
str_upper(s) == upper_range(s, 1, Len(s))

\* s.strip(): leading and trailing whitespace removed
str_strip(s) ==
    LET kept == {i \in 1..Len(s) : s[i] \notin Whitespace}
    IN  IF kept = {} THEN << >>
        ELSE SubSeq(s, CHOOSE i \in kept : \A j \in kept : i <= j,
                       CHOOSE i \in kept : \A j \in kept : i >= j)

\* the string a pattern ending in $ has to match in full: $ matches at the
\* end of the string and also just before a newline that ends the string
before_dollar(v) ==
    IF Len(v) > 0 /\ v[Len(v)] = "\n" THEN SubSeq(v, 1, Len(v) - 1) ELSE v

\* the Python string of an optional character
str_of(c) == IF c = "" THEN << >> ELSE <<c>>

\* `sub in s` for a Python string sub of at most one character: the empty
\* string is a substring of every string
str_in(sub, s) == sub = "" \/ sub \in Range(s)

(***************************************************************************)
(* validators.py                                                           *)
(***************************************************************************)
nif_control ==
    <<"T", "R", "W", "A", "G", "M", "Y", "F", "P", "D", "X", "B",
      "N", "J", "Z", "S", "Q", "V", "H", "L", "C", "K", "E">>

cif_control == <<"J", "A", "B", "C", "D", "E", "F", "G", "H", "I">>

cif_types ==
    <<"A", "B", "C", "D", "E", "F", "G", "H", "J", "K", "L", "M",
      "N", "P", "Q", "S">>

nie_types == <<"X", "Y", "Z">>

\* sum([int(unit) for unit in str(n)])
unit_sum(n) ==
    LET s == str_int(n)
    IN  IF Len(s) = 1 THEN int_digit(s[1])
        ELSE int_digit(s[1]) + int_digit(s[2])

\* cif_term with the doubled digit added as it is, its digits not summed
cif_term_no_digit_sum(pos, digit) ==
    IF pos % 2 # 0 THEN int_digit(digit)
    ELSE int_digit(digit) * 2

\* the term the digit at 0-based position pos adds to s1 + s2
cif_term(pos, digit) ==
    IF pos % 2 # 0 THEN int_digit(digit)
    ELSE unit_sum(int_digit(digit) * 2)

RECURSIVE cif_sum(_, _)
cif_sum(number, pos) ==
    IF pos >= Len(number) THEN 0
    ELSE cif_term(pos, number[pos + 1]) + cif_sum(number, pos + 1)

cif_get_checksum(number) == (10 - (cif_sum(number, 0) % 10)) % 10

\* sys.int_info.default_max_str_digits of CPython 3.11 (and of the security
\* releases of 3.7 to 3.10): int() of a string of more digits, leading zeros
\* counted, raises ValueError
int_max_str_digits == 4300

\* int(d) raises ValueError
int_raises(d) == Len(d) > int_max_str_digits

\* 10 ** k % m
RECURSIVE pow10_mod(_, _)
pow10_mod(k, m) ==
    IF k = 0 THEN 1 % m
    ELSE LET h == pow10_mod(k \div 2, m)
         IN  IF k % 2 = 0 THEN (h * h) % m ELSE (((h * h) % m) * 10) % m

\* the number written by d[lo..hi], modulo m.  Python integers are unbounded,
\* so the remainder is taken of the two halves of the digits and no
\* intermediate value leaves TLC's integer range.
RECURSIVE int_mod_digits(_, _, _, _)
int_mod_digits(d, lo, hi, m) ==
    IF lo > hi THEN 0
    ELSE IF lo = hi THEN int_digit(d[lo]) % m
    ELSE LET mid == (lo + hi) \div 2
         IN  (int_mod_digits(d, lo, mid, m) * pow10_mod(hi - mid, m)
                + int_mod_digits(d, mid + 1, hi, m)) % m

\* int(d) % m for a non-empty string of decimal digits; -1 stands for the
\* ValueError int(d) raises
int_mod(d, m) == IF int_raises(d) THEN -1 ELSE int_mod_digits(d, 1, Len(d), m)

\* self.nif_control[int(d) % 23]; "ValueError" when int(d) raises it
nif_get_checksum(d) ==
    IF int_mod(d, 23) = -1 THEN "ValueError" ELSE nif_control[int_mod(d, 23) + 1]

\* re.match(r'^([cif_types nie_types]?)(\d+)([nif_control cif_control]?)$')
\* A leading type letter and a trailing control letter are not digits, so
\* each is captured by its optional group whenever it is there.
re_match(s) ==
    LET v      == before_dollar(s)
        has1   == Len(v) > 0 /\ v[1] \in Range(cif_types \o nie_types)
        rest   == IF has1 THEN Tail(v) ELSE v
        has2   == Len(rest) > 0
                    /\ rest[Len(rest)] \in Range(nif_control \o cif_control)
        number == IF has2 THEN SubSeq(rest, 1, Len(rest) - 1) ELSE rest
    IN  [matched |-> number # << >> /\ \A i \in 1..Len(number) : number[i] \in Digits,
         letter1 |-> IF has1 THEN v[1] ELSE "",
         number  |-> number,
         letter2 |-> IF has2 THEN rest[Len(rest)] ELSE ""]

\* letter1.replace('X', '0').replace('Y', '1').replace('Z', '2')
l2n(letter1) ==
    str_replace(str_replace(str_replace(str_of(letter1), <<"X">>, <<"0">>),
                            <<"Y">>, <<"1">>), <<"Z">>, <<"2">>)

\* cif_check with the control letter looked up in the NIF table
cif_check_nif_table(m) ==
    IF m.letter2 = ""
    THEN int_digit(m.number[Len(m.number)])
            = cif_get_checksum(SubSeq(m.number, 1, Len(m.number) - 1))
    ELSE m.letter2 = nif_control[cif_get_checksum(m.number) + 1]

\* letter2 in (checksum, cif_control[checksum]).  Without a control letter
\* letter2 is the integer int(number[-1]), which never equals a string; with
\* one it is a string, which never equals the integer checksum.
cif_check(m) ==
    IF m.letter2 = ""
    THEN LET number  == SubSeq(m.number, 1, Len(m.number) - 1)
             letter2 == int_digit(m.number[Len(m.number)])
         IN  letter2 = cif_get_checksum(number)
    ELSE m.letter2 = cif_control[cif_get_checksum(m.number) + 1]

\* the NIF branch is taken
is_nif(m) == m.letter1 = "" /\ m.letter2 # ""

\* the NIE branch is taken (after the NIF branch was not)
is_nie(m) == str_in(m.letter1, nie_types) /\ m.letter2 # ""

\* the CIF branch is taken (after the NIF and NIE branches were not)
is_cif(only, m) ==
    ~only /\ str_in(m.letter1, cif_types) /\ Len(m.number) \in {7, 8}

\* ESIdentityCardNumberValidator(only_nif=only).__call__(v): "ok" when it
\* returns, else the key of the error message of the ValidationError it
\* raises, or "ValueError" when int() raises that and nothing catches it
Validator_call(only, v) ==
    LET m == re_match(v)
    IN  IF ~m.matched THEN "invalid"
        ELSE IF is_nif(m)
        THEN LET c == nif_get_checksum(m.number)
             IN  IF c = "ValueError" THEN "ValueError"
                 ELSE IF m.letter2 = c THEN "ok" ELSE "invalid_nif"
        ELSE IF is_nie(m)
        THEN LET c == nif_get_checksum(l2n(m.letter1) \o m.number)
             IN  IF c = "ValueError" THEN "ValueError"
                 ELSE IF m.letter2 = c THEN "ok" ELSE "invalid_nie"
        ELSE IF is_cif(only, m)
        THEN IF cif_check(m) THEN "ok" ELSE "invalid_cif"
        ELSE "invalid"

(***************************************************************************)
(* forms.py.  The fields extend Django's CharField and RegexField, whose   *)
(* clean() converts the value (to_python: with strip set, surrounding      *)
(* whitespace is removed), raises 'required' for an empty value of a       *)
(* required field, returns '' for an empty value otherwise, and else runs  *)
(* the validators and returns the converted value.  strip is an argument   *)
(* of CharField since Django 1.9; earlier versions behave as strip=False.  *)
(***************************************************************************)
\* value in EMPTY_VALUES, for a string
is_empty(v) == v = << >>

\* normalize with the hyphens left in
normalize_keep_hyphen(v) == str_replace(str_upper(v), <<" ">>, << >>)

\* value.upper().replace(' ', '').replace('-', '')
normalize(v) ==
    str_replace(str_replace(str_upper(v), <<" ">>, << >>), <<"-">>, << >>)

\* the only_nif of the validator the field is constructed with:
\* validators=[ESIdentityCardNumberValidator()], whatever the field's own
field_validator_only_nif(only) == FALSE

\* CharField.to_python(v) as super().clean(v) calls it
to_python(st, v) == IF ~is_empty(v) /\ st THEN str_strip(v) ELSE v

\* ESIdentityCardNumberField(only_nif=only, strip=st, required=req).clean(v)
ESIdentityCardNumberField_clean(only, st, req, v) ==
    LET norm == IF ~is_empty(v) THEN normalize(v) ELSE v
        val  == to_python(st, norm)
    IN  IF is_empty(val)
        THEN IF req THEN [status |-> "required", ret |-> << >>]
             ELSE [status |-> "ok", ret |-> << >>]
        ELSE LET code == Validator_call(field_validator_only_nif(only), val)
             IN  [status |-> code, ret |-> IF code = "ok" THEN val ELSE << >>]

control_str == <<1, 2, 4, 8, 5, 10, 9, 7, 3, 6>>

\* the characters [ -] of the CCC pattern
ccc_separators == {" ", "-"}

\* \d{n} at position i: the n characters there, << >> when they are not n digits
ccc_group(v, i, n) ==
    IF i + n - 1 <= Len(v) /\ \A k \in i..(i + n - 1) : v[k] \in Digits
    THEN SubSeq(v, i, i + n - 1)
    ELSE << >>

\* [ -]? at position i: the position after it
ccc_skip(v, i) == IF i <= Len(v) /\ v[i] \in ccc_separators THEN i + 1 ELSE i

\* r'^(\d{4})[ -]?(\d{4})[ -]?(\d{2})[ -]?(\d{10})$'
ccc_match(s) ==
    LET v       == before_dollar(s)
        i2      == ccc_skip(v, 5)
        i3      == ccc_skip(v, i2 + 4)
        i4      == ccc_skip(v, i3 + 2)
        entity  == ccc_group(v, 1, 4)
        office  == ccc_group(v, i2, 4)
        check   == ccc_group(v, i3, 2)
        account == ccc_group(v, i4, 10)
    IN  [matched  |-> /\ entity # << >> /\ office # << >>
                      /\ check # << >> /\ account # << >>
                      /\ i4 + 9 = Len(v),
         entity   |-> entity,
         office   |-> office,
         checksum |-> check,
         account  |-> account]

\* sum([int(digit) * int(control) for digit, control in zip(d, control_str)])
RECURSIVE ccc_sum(_, _)
ccc_sum(d, i) ==
    IF i > Len(d) \/ i > Len(control_str) THEN 0
    ELSE int_digit(d[i]) * control_str[i] + ccc_sum(d, i + 1)

\* get_checksum without the two replacements: 10 and 11 stay as they are
get_checksum_no_replace(d) == str_int(11 - (ccc_sum(d, 1) % 11))

\* str(11 - sum(...) % 11).replace('10', '1').replace('11', '0')
get_checksum(d) ==
    str_replace(str_replace(str_int(11 - (ccc_sum(d, 1) % 11)),
                            <<"1", "0">>, <<"1">>),
                <<"1", "1">>, <<"0">>)

\* ccc_return handing back the matched groups, separators dropped
ccc_return_groups(v, m) == m.entity \o m.office \o m.checksum \o m.account

\* the value clean() hands back on success: return value
ccc_return(v, m) == v

\* super(ESCCCField, self).clean(v): "ok" when it returns (its value is
\* dropped), else the error it raises; the pattern is searched in the
\* converted value
RegexField_clean(st, req, v) ==
    LET val == to_python(st, v)
    IN  IF is_empty(val) THEN (IF req THEN "required" ELSE "ok")
        ELSE IF ccc_match(val).matched THEN "ok" ELSE "invalid"

\* ESCCCField(strip=st, required=req).clean(v).  The pattern is matched
\* again in the value as given; where that fails, m is None and m.groups()
\* raises AttributeError.
ESCCCField_clean(st, req, v) ==
    LET super == RegexField_clean(st, req, v)
        m     == ccc_match(v)
    IN  IF super # "ok" THEN [status |-> super, ret |-> << >>]
        ELSE IF is_empty(v) THEN [status |-> "ok", ret |-> << >>]
        ELSE IF ~m.matched THEN [status |-> "AttributeError", ret |-> << >>]
        ELSE IF get_checksum(<<"0", "0">> \o m.entity \o m.office)
                    \o get_checksum(m.account) = m.checksum
        THEN [status |-> "ok", ret |-> ccc_return(v, m)]
        ELSE [status |-> "checksum", ret |-> << >>]

(***************************************************************************)
(* Inputs of the validator: an optional leading character, a digit string, *)
(* an optional trailing character and an optional final newline.  The      *)
(* digit strings are the first k digits of a base string followed by at    *)
(* most one further digit, so that every length from 0 to MaxStem + 1 and  *)
(* every final digit occurs; one base is written in Arabic-Indic digits.   *)
(***************************************************************************)
MaxStem == 8

DigitBases ==
    { <<"5", "8", "8", "1", "8", "5", "0", "1", "2", "3">>,
      <<"1", "2", "3", "4", "5", "6", "7", "8", "9", "0">>,
      <<"U+0661", "U+0662", "U+0663", "U+0664", "U+0665",
        "U+0666", "U+0667", "U+0668", "U+0669", "U+0660">> }

\* the ASCII digits, an Arabic-Indic and a fullwidth digit
FinalDigits == Range(DigitChars) \cup {"U+0664", "U+FF11"}

DigitStrings ==
    { SubSeq(b, 1, k) \o t :
        b \in DigitBases, k \in 0..MaxStem,
        t \in {<< >>} \cup {<<d>> : d \in FinalDigits} }

\* every type letter, no letter, and a letter that is no type letter
PrefixOptions == {<< >>, <<"T">>} \cup {<<c>> : c \in Range(cif_types \o nie_types)}

\* every control letter, no letter, and a letter that is no control letter
SuffixOptions == {<< >>, <<"O">>} \cup {<<c>> : c \in Range(nif_control \o cif_control)}

\* nothing, or the newline that ends a line of text
NewlineOptions == {<< >>, <<"\n">>}

IdentityInputs(v) ==
    \E p \in PrefixOptions, d \in DigitStrings, s \in SuffixOptions,
       n \in NewlineOptions : v = p \o d \o s \o n

\* numbers at the limit of int(): one digit repeated one time less than, as
\* often as, and one time more than int() takes
LongDigits ==
    { [i \in 1..n |-> "1"] :
        n \in {int_max_str_digits - 1, int_max_str_digits, int_max_str_digits + 1} }

\* such a number as a NIF, as a NIE and behind a CIF type letter, with the
\* control letters of the three numbers and one that is none of them
LongInputs(v) ==
    \E p \in {<< >>, <<"X">>, <<"A">>}, d \in LongDigits,
       s \in {<<"C">>, <<"V">>, <<"X">>, <<"T">>} : v = p \o d \o s

NoResult == [status |-> "none", ret |-> << >>]

(***************************************************************************)
(* Spec: the validator and cif_get_checksum applied to one input           *)
(***************************************************************************)
Init ==
    /\ pc = "start"
    /\ only_nif \in BOOLEAN
    /\ required = TRUE
    /\ strip = FALSE
    /\ IdentityInputs(value) \/ LongInputs(value)
    /\ base = value
    /\ edits = 0
    /\ lowered = {}
    /\ result = NoResult
    /\ checksum = -1

\* ESIdentityCardNumberValidator(only_nif)(value); __call__ returns None
Call ==
    /\ pc = "start"
    /\ pc' = "validated"
    /\ result' = [status |-> Validator_call(only_nif, value), ret |-> << >>]
    /\ UNCHANGED <<only_nif, required, strip, base, value, edits, lowered, checksum>>

\* cif_get_checksum(value) for a string of decimal digits
Checksum ==
    /\ pc = "start"
    /\ \A i \in 1..Len(value) : value[i] \in Digits
    /\ pc' = "checksum"
    /\ checksum' = cif_get_checksum(value)
    /\ UNCHANGED <<only_nif, required, strip, base, value, edits, lowered, result>>

Next == Call \/ Checksum

Spec == Init /\ [][Next]_vars

(***************************************************************************)
(* The shapes and checksums the claims speak of, stated on the input       *)
(* string itself and independently of re_match and cif_get_checksum        *)
(***************************************************************************)
NifAlphabet ==
    <<"T", "R", "W", "A", "G", "M", "Y", "F", "P", "D", "X", "B",
      "N", "J", "Z", "S", "Q", "V", "H", "L", "C", "K", "E">>

CifAlphabet == <<"J", "A", "B", "C", "D", "E", "F", "G", "H", "I">>

CifTypeLetters ==
    {"A", "B", "C", "D", "E", "F", "G", "H", "J", "K", "L", "M", "N", "P", "Q", "S"}

NieTypeLetters == {"X", "Y", "Z"}

\* a suffix letter: a letter of one of the two control alphabets
SuffixLetters == Range(NifAlphabet) \cup Range(CifAlphabet)

\* one or more decimal digits
AllDigits(s) == s # << >> /\ \A i \in 1..Len(s) : s[i] \in Digits

Last(s) == s[Len(s)]

ButLast(s) == SubSeq(s, 1, Len(s) - 1)

\* digits followed by one suffix letter, no prefix letter
NifShape(v) == Len(v) >= 2 /\ Last(v) \in SuffixLetters /\ AllDigits(ButLast(v))

\* X, Y or Z, digits, one suffix letter
NieShape(v) ==
    /\ Len(v) >= 3
    /\ v[1] \in NieTypeLetters
    /\ Last(v) \in SuffixLetters
    /\ AllDigits(ButLast(Tail(v)))

\* a CIF type letter and 7 or 8 digits, then no letter
CifShapeDigit(v) ==
    Len(v) \in {8, 9} /\ v[1] \in CifTypeLetters /\ AllDigits(Tail(v))

\* a CIF type letter and 7 or 8 digits, then a suffix letter
CifShapeLetter(v) ==
    /\ Len(v) \in {9, 10}
    /\ v[1] \in CifTypeLetters
    /\ Last(v) \in SuffixLetters
    /\ AllDigits(ButLast(Tail(v)))

CifShape(v) == CifShapeDigit(v) \/ CifShapeLetter(v)

\* t[lo] + ... + t[hi]
RECURSIVE RangeSum(_, _, _)
RangeSum(t, lo, hi) ==
    IF lo > hi THEN 0
    ELSE IF lo = hi THEN t[lo]
    ELSE RangeSum(t, lo, (lo + hi) \div 2) + RangeSum(t, (lo + hi) \div 2 + 1, hi)

SeqSum(t) == RangeSum(t, 1, Len(t))

\* ten to the k, modulo m: 10^(2j) = (10^j)^2
RECURSIVE Pow10Mod(_, _)
Pow10Mod(k, m) ==
    IF k = 0 THEN 1 % m
    ELSE IF k % 2 = 1 THEN (10 * Pow10Mod(k - 1, m)) % m
    ELSE LET r == Pow10Mod(k \div 2, m) IN (r * r) % m

\* the decimal number written by d, modulo m: each digit times its power of ten
DecimalMod(d, m) ==
    SeqSum([i \in 1..Len(d) |-> int_digit(d[i]) * Pow10Mod(Len(d) - i, m)]) % m

ExpectedNifLetter(d) == NifAlphabet[DecimalMod(d, 23) + 1]

\* X to 0, Y to 1, Z to 2
NieDigit(p) == CASE p = "X" -> "0" [] p = "Y" -> "1" [] p = "Z" -> "2"

\* twice a digit, its two decimal digits added: 8 gives 16 gives 7
DoubledDigitSum(n) == IF 2 * n > 9 THEN 2 * n - 9 ELSE 2 * n

\* the digits at odd 0-based positions, as they are
OddSum(d) ==
    SeqSum([i \in 1..Len(d) |-> IF (i - 1) % 2 = 1 THEN int_digit(d[i]) ELSE 0])

\* the digits at even 0-based positions, doubled and digit-summed
EvenSum(d) ==
    SeqSum([i \in 1..Len(d) |->
              IF (i - 1) % 2 = 0 THEN DoubledDigitSum(int_digit(d[i])) ELSE 0])

ExpectedCifChecksum(d) == (10 - ((OddSum(d) + EvenSum(d)) % 10)) % 10

(***************************************************************************)
(* Claims on the validator (Spec)                                          *)
(***************************************************************************)

\* C1: an input of digits D and one suffix letter L, with no prefix letter, is
\* accepted iff L is the NIF control letter of int(D) mod 23, and is otherwise
\* refused with invalid_nif (never as malformed), for either value of only_nif
\* and any number of digits.
C1_NifChecksum ==
    (pc = "validated" /\ NifShape(value)) =>
        result.status = IF Last(value) = ExpectedNifLetter(ButLast(value))
                        THEN "ok" ELSE "invalid_nif"

\* C2: an input of a prefix X, Y or Z, digits D and a suffix letter L is
\* accepted iff L is the control letter of int(m(P) ++ D) mod 23 with m mapping
\* X, Y, Z to 0, 1, 2, and is otherwise refused with invalid_nie, for either
\* value of only_nif and any number of digits.
C2_NieChecksum ==
    (pc = "validated" /\ NieShape(value)) =>
        result.status =
            IF Last(value) = ExpectedNifLetter(<<NieDigit(value[1])>> \o ButLast(Tail(value)))
            THEN "ok" ELSE "invalid_nie"

\* C1 and C2 for the numbers int() reads: with at most int_max_str_digits
\* digits (the digit of the NIE prefix counted) the control letter decides
\* between acceptance and the checksum error of the kind.
ChecksumWithinIntLimit ==
    (pc = "validated" /\ Len(value) <= int_max_str_digits + 1) =>
        /\ NifShape(value) =>
              result.status = IF Last(value) = ExpectedNifLetter(ButLast(value))
                              THEN "ok" ELSE "invalid_nif"
        /\ NieShape(value) =>
              result.status =
                  IF Last(value)
                       = ExpectedNifLetter(<<NieDigit(value[1])>> \o ButLast(Tail(value)))
                  THEN "ok" ELSE "invalid_nie"

\* a NIF of int_max_str_digits digits was accepted
LongNifAccepted ==
    /\ pc = "validated"
    /\ Len(value) = int_max_str_digits + 1
    /\ NifShape(value)
    /\ result.status = "ok"

\* C3: with only_nif false, a CIF type letter followed by 7 or 8 digits and
\* optionally a suffix letter is accepted iff the check character is the
\* checksum c as a digit or 'JABCDEFGHI'[c] as a letter, and is otherwise
\* refused with invalid_cif; c is over all the digits when a suffix letter
\* is there, and over all but the last digit (the check character) when not.
C3_CifChecksum ==
    (pc = "validated" /\ ~only_nif /\ CifShape(value)) =>
        LET check  == Last(value)
            number == ButLast(Tail(value))
            c      == ExpectedCifChecksum(number)
        IN  result.status =
                IF (check \in Digits /\ int_digit(check) = c) \/ check = CifAlphabet[c + 1]
                THEN "ok" ELSE "invalid_cif"

\* A5881850A, seven digits and the letter form of checksum 1, is accepted
C3_Witness ==
    /\ pc = "validated"
    /\ ~only_nif
    /\ value = <<"A", "5", "8", "8", "1", "8", "5", "0", "A">>
    /\ result.status = "ok"

\* C5: with only_nif true, every structurally valid CIF gets the reason
\* kind_disallowed, a result that is neither acceptance, nor the malformed
\* result, nor any checksum error.
C5_KindDisallowed ==
    (pc = "validated" /\ only_nif /\ CifShape(value)) =>
        result.status \notin {"ok", "invalid", "invalid_nif", "invalid_nie", "invalid_cif"}

\* C6: every input that has neither the NIF, nor the NIE, nor the CIF shape is
\* refused as malformed: never accepted, never given a checksum error.
C6_MalformedNeverChecksummed ==
    (pc = "validated" /\ ~NifShape(value) /\ ~NieShape(value) /\ ~CifShape(value)) =>
        result.status = "invalid"

\* C9: cif_get_checksum of a digit string (the empty one included) is in 0..9
\* and is (10 - ((odd_sum + even_sum) mod 10)) mod 10, a doubled digit adding
\* its digit sum; cif_get_checksum('5881850') = 1 and A58818501 is valid.
C9_CifGetChecksum ==
    /\ pc = "checksum" =>
          /\ checksum \in 0..9
          /\ checksum = ExpectedCifChecksum(value)
          /\ value = <<"5", "8", "8", "1", "8", "5", "0">> => checksum = 1
    /\ (/\ pc = "validated"
        /\ ~only_nif
        /\ value = <<"A", "5", "8", "8", "1", "8", "5", "0", "1">>) => result.status = "ok"

\* the checksum of 5881850 was computed, with its three doubled 8s and 5
C9_Witness ==
    /\ pc = "checksum"
    /\ value = <<"5", "8", "8", "1", "8", "5", "0">>
    /\ checksum = 1

(***************************************************************************)
(* SpecField: the identity field cleaning a raw string, which is a base    *)
(* string with separators inserted and letter case changed                 *)
(***************************************************************************)
MaxEdits == 2

\* valid and invalid numbers, in lower case and with separators, ended by a
\* newline or a tab, written in Arabic-Indic digits, and with letters outside
\* ASCII: KELVIN SIGN, OHM SIGN, LATIN SMALL LETTER LONG S and SHARP S
FieldBases ==
    { << >>,
      <<"1", "2", "3", "4", "5", "6", "7", "8", "Z">>,
      <<"1", "2", "3", "4", "5", "6", "7", "8", "A">>,
      <<"x", "1", "2", "3", "4", "5", "6", "7", "L">>,
      <<"A", "5", "8", "8", "1", "8", "5", "0", "1">>,
      <<"a", "-", "5", "8", "8", "1", "8", "5", "0", " ", "a">>,
      <<"1", "O">>,
      <<"1", "2", "3", "4", "5", "6", "7", "8", "Z", "\n">>,
      <<"1", "2", "3", "4", "5", "6", "7", "8", "Z", "\t">>,
      <<"U+0661", "U+0662", "U+0663", "U+0664", "U+0665", "U+0666", "U+0667",
        "U+0668", "Z">>,
      <<"U+212A", "5", "8", "8", "1", "8", "5", "0", "A">>,
      <<"U+017F", "5", "8", "8", "1", "8", "5", "0", "a">>,
      <<"1", "U+00DF">>,
      <<"1", "U+2126">> }

\* c.lower() for the upper-case letters of the inputs
LowerFrom ==
    <<"A", "B", "C", "D", "E", "F", "G", "H", "I", "J", "K", "L", "M",
      "N", "O", "P", "Q", "R", "S", "T", "U", "V", "W", "X", "Y", "Z",
      "U+212A", "U+2126">>

LowerTo ==
    <<"a", "b", "c", "d", "e", "f", "g", "h", "i", "j", "k", "l", "m",
      "n", "o", "p", "q", "r", "s", "t", "u", "v", "w", "x", "y", "z",
      "k", "U+03C9">>

LowerOf ==
    [c \in Range(LowerFrom) |->
        LowerTo[CHOOSE i \in 1..Len(LowerFrom) : LowerFrom[i] = c]]

InitField ==
    /\ pc = "start"
    /\ only_nif \in BOOLEAN
    /\ required \in BOOLEAN
    /\ strip \in BOOLEAN
    /\ base \in FieldBases
    /\ value = base
    /\ edits = 0
    /\ lowered = {}
    /\ result = NoResult
    /\ checksum = -1

\* a space or hyphen typed before position i + 1
InsertSeparator ==
    /\ pc = "start"
    /\ edits < MaxEdits
    /\ \E i \in 0..Len(value), c \in {" ", "-"} :
         value' = SubSeq(value, 1, i) \o <<c>> \o SubSeq(value, i + 1, Len(value))
    /\ edits' = edits + 1
    /\ UNCHANGED <<pc, only_nif, required, strip, base, lowered, result, checksum>>

\* the letter at position i typed in the other case: a lower-case letter as
\* its upper-case form, an upper-case letter as its lower-case form
ChangeCase ==
    /\ pc = "start"
    /\ edits < MaxEdits
    /\ \E i \in 1..Len(value) :
         \/ /\ upper_char(value[i]) # <<value[i]>>
            /\ value' = SubSeq(value, 1, i - 1) \o upper_char(value[i])
                            \o SubSeq(value, i + 1, Len(value))
            /\ lowered' = lowered
         \/ /\ value[i] \in DOMAIN LowerOf
            /\ value' = [value EXCEPT ![i] = LowerOf[value[i]]]
            /\ lowered' = lowered \cup {value[i]}
    /\ edits' = edits + 1
    /\ UNCHANGED <<pc, only_nif, required, strip, base, result, checksum>>

\* ESIdentityCardNumberField(only_nif, strip=strip, required=required).clean(value)
Clean ==
    /\ pc = "start"
    /\ pc' = "cleaned"
    /\ result' = ESIdentityCardNumberField_clean(only_nif, strip, required, value)
    /\ UNCHANGED <<only_nif, required, strip, base, value, edits, lowered, checksum>>

NextField == InsertSeparator \/ ChangeCase \/ Clean

SpecField == InitField /\ [][NextField]_vars

(***************************************************************************)
(* Claims on the identity field (SpecField)                                *)
(***************************************************************************)

\* C8 as claimed: the field's outcome (acceptance, error, returned value)
\* depends on the raw input only through its normalized form: the raw string,
\* obtained from the base string by inserting spaces and hyphens and changing
\* letter case, is cleaned to the outcome of the base string, and normalizing
\* a normalized string returns it unchanged.
C8_AnyCaseChange ==
    pc = "cleaned" =>
        /\ result = ESIdentityCardNumberField_clean(only_nif, strip, required, base)
        /\ normalize(normalize(value)) = normalize(value)

\* C8 as amended: the same, for every raw string in which each letter typed
\* in lower case has a lower-case form whose upper-case form is that of the
\* letter itself (every letter but six, KELVIN SIGN and OHM SIGN among them);
\* an accepted string is returned normalized, and stripped by a stripping
\* field.
C8_NormalizedFormDecides ==
    (pc = "cleaned" /\ \A c \in lowered : str_upper(<<LowerOf[c]>>) = upper_char(c)) =>
        /\ result = ESIdentityCardNumberField_clean(only_nif, strip, required, base)
        /\ normalize(normalize(value)) = normalize(value)
        /\ result.status = "ok" =>
              result.ret = IF strip THEN str_strip(normalize(base)) ELSE normalize(base)

\* a valid CIF typed in lower case with a hyphen is accepted and returned in
\* canonical form
C8_Witness ==
    /\ pc = "cleaned"
    /\ lowered = {"A"}
    /\ base = <<"A", "5", "8", "8", "1", "8", "5", "0", "1">>
    /\ value = <<"a", "-", "5", "8", "8", "1", "8", "5", "0", "1">>
    /\ result = [status |-> "ok", ret |-> <<"A", "5", "8", "8", "1", "8", "5", "0", "1">>]

\* C10: a field constructed with only_nif = v gives every (non-empty) input the
\* outcome of ESIdentityCardNumberValidator(only_nif = v) on the normalized
\* input (as the field converts it); so with only_nif = True it refuses every
\* CIF.
C10_FieldHonoursOnlyNif ==
    (pc = "cleaned" /\ ~is_empty(to_python(strip, normalize(value)))) =>
        result.status = Validator_call(only_nif, to_python(strip, normalize(value)))

(***************************************************************************)
(* SpecCCC: the bank account field cleaning one input                      *)
(***************************************************************************)
\* one entity is written in Arabic-Indic digits
CCCEntities ==
    { <<"2", "1", "0", "0">>, <<"0", "0", "0", "0">>,
      <<"U+0662", "U+0661", "U+0660", "U+0660">> }

CCCOffices == { <<"0", "4", "1", "8">>, <<"0", "0", "0", "0">>, <<"0", "0", "0", "2">> }

CCCAccounts ==
    { <<"0", "2", "0", "0", "0", "5", "1", "3", "3", "2">>,
      <<"0", "0", "0", "0", "0", "0", "0", "0", "0", "0">>,
      <<"1", "0", "0", "0", "0", "0", "0", "0", "0", "0">> }

CCCChecks == { <<a, b>> : a \in Range(DigitChars), b \in Range(DigitChars) }

CCCSeparatorOptions == { << >>, <<" ">>, <<"-">> }

\* inputs of the 4-4-2-10 shape
CCCShaped(v) ==
    \E e \in CCCEntities, o \in CCCOffices, c \in CCCChecks, a \in CCCAccounts,
       s1 \in CCCSeparatorOptions, s2 \in CCCSeparatorOptions,
       s3 \in CCCSeparatorOptions :
        v = e \o s1 \o o \o s2 \o c \o s3 \o a

\* the published example with and without hyphens, and with a wrong check
\* field
CCCExamples ==
    { <<"2", "1", "0", "0", "0", "4", "1", "8", "4", "5",
        "0", "2", "0", "0", "0", "5", "1", "3", "3", "2">>,
      <<"2", "1", "0", "0", "-", "0", "4", "1", "8", "-", "4", "5", "-",
        "0", "2", "0", "0", "0", "5", "1", "3", "3", "2">>,
      <<"2", "1", "0", "0", "0", "4", "1", "8", "4", "6",
        "0", "2", "0", "0", "0", "5", "1", "3", "3", "2">> }

\* whitespace a form may receive before and after the number
CCCPadding == { << >>, <<" ">>, <<"\n">>, <<"\t">>, <<"\n", "\n">> }

\* the examples with whitespace around them; whitespace alone; a number all
\* in Arabic-Indic digits
CCCPadded ==
    { l \o x \o r : l \in CCCPadding, x \in CCCExamples \cup {<< >>}, r \in CCCPadding }
    \cup
    { <<"U+0662", "U+0661", "U+0660", "U+0660", "U+0660", "U+0664", "U+0661",
        "U+0668", "U+0664", "U+0665", "U+0660", "U+0662", "U+0660", "U+0660",
        "U+0660", "U+0665", "U+0661", "U+0663", "U+0663", "U+0662">> }

\* the empty input, and inputs off the shape: a doubled separator, a short
\* account, a letter, a separator inside a group
CCCMalformed ==
    { << >>,
      <<"2", "1", "0", "0", "-", "-", "0", "4", "1", "8", "4", "5",
        "0", "2", "0", "0", "0", "5", "1", "3", "3", "2">>,
      <<"2", "1", "0", "0", "0", "4", "1", "8", "4", "5",
        "0", "2", "0", "0", "0", "5", "1", "3", "3">>,
      <<"2", "1", "0", "0", "0", "4", "1", "8", "4", "5",
        "0", "2", "0", "0", "0", "5", "1", "3", "3", "A">>,
      <<"2", "1", " ", "0", "0", "0", "4", "1", "8", "4", "5",
        "0", "2", "0", "0", "0", "5", "1", "3", "3", "2">> }

InitCCC ==
    /\ pc = "start"
    /\ only_nif = FALSE
    /\ required \in BOOLEAN
    /\ strip \in BOOLEAN
    /\ CCCShaped(value) \/ value \in CCCMalformed \cup CCCPadded
    /\ base = value
    /\ edits = 0
    /\ lowered = {}
    /\ result = NoResult
    /\ checksum = -1

\* ESCCCField(strip=strip, required=required).clean(value)
CleanCCC ==
    /\ pc = "start"
    /\ pc' = "ccc"
    /\ result' = ESCCCField_clean(strip, required, value)
    /\ UNCHANGED <<only_nif, required, strip, base, value, edits, lowered, checksum>>

NextCCC == CleanCCC

SpecCCC == InitCCC /\ [][NextCCC]_vars

(***************************************************************************)
(* Claims on the bank account field (SpecCCC)                              *)
(***************************************************************************)
CccWeights == <<1, 2, 4, 8, 5, 10, 9, 7, 3, 6>>

\* the digits of v, separators and all else dropped
IsDigit(c) == c \in Digits

DigitsOnly(v) == SelectSeq(v, IsDigit)

\* 4, 4, 2 and 10 digits, each boundary with at most one space or hyphen
CccShape(v) ==
    LET d == DigitsOnly(v)
    IN  /\ Len(d) = 20
        /\ \E s1 \in CCCSeparatorOptions, s2 \in CCCSeparatorOptions,
              s3 \in CCCSeparatorOptions :
             v = SubSeq(d, 1, 4) \o s1 \o SubSeq(d, 5, 8) \o s2
                   \o SubSeq(d, 9, 10) \o s3 \o SubSeq(d, 11, 20)

\* k(d) = 11 - (sum of d[i] * w[i] mod 11), with 10 giving 1 and 11 giving 0
CccK(d) ==
    LET r == 11 - (SeqSum([i \in 1..10 |-> int_digit(d[i]) * CccWeights[i]]) % 11)
    IN  IF r = 10 THEN 1 ELSE IF r = 11 THEN 0 ELSE r

\* C4: an input of the 4-4-2-10 shape is accepted iff its check field is
\* k('00' ++ entity ++ office) ++ k(account), k always being one decimal
\* digit, and is otherwise refused with the checksum error;
\* 21000418450200051332 is accepted.
C4_CccChecksum ==
    (pc = "ccc" /\ CccShape(value)) =>
        LET d  == DigitsOnly(value)
            k1 == CccK(<<"0", "0">> \o SubSeq(d, 1, 8))
            k2 == CccK(SubSeq(d, 11, 20))
        IN  /\ k1 \in 0..9 /\ k2 \in 0..9
            /\ result.status =
                 IF SubSeq(d, 9, 10) = <<DigitChars[k1 + 1], DigitChars[k2 + 1]>>
                 THEN "ok" ELSE "checksum"

\* 21000418450200051332 was cleaned and accepted
C4_Witness ==
    /\ pc = "ccc"
    /\ value = <<"2", "1", "0", "0", "0", "4", "1", "8", "4", "5",
                 "0", "2", "0", "0", "0", "5", "1", "3", "3", "2">>
    /\ result.status = "ok"

\* C7 as claimed: every accepted input, with or without separators, is
\* returned as its 20 digits with the separators removed.
C7_ReturnsDigitsOnly ==
    (pc = "ccc" /\ result.status = "ok" /\ ~is_empty(value)) =>
        result.ret = DigitsOnly(value)

\* C7 as amended: every accepted input is returned exactly as it was given,
\* its separators (and a newline that ends it) kept; so the returned value is
\* the 20 digits only when the input was 20 characters long.
C7_ReturnsInputUnchanged ==
    (pc = "ccc" /\ result.status = "ok" /\ ~is_empty(value)) =>
        /\ result.ret = value
        /\ (result.ret = DigitsOnly(value)) <=> (Len(value) = 20)

\* 2100-0418-45-0200051332 was accepted and returned with its hyphens
C7_Witness ==
    /\ pc = "ccc"
    /\ value = <<"2", "1", "0", "0", "-", "0", "4", "1", "8", "-", "4", "5", "-",
                 "0", "2", "0", "0", "0", "5", "1", "3", "3", "2">>
    /\ result = [status |-> "ok", ret |-> value]

====
